---- MODULE Spec2Model ----
(***************************************************************************)
(* Model of the order / suborder synchronisation engine of current-be:     *)
(* the order lifecycle handlers of main.py (create_order, update_order,    *)
(* cancel_order, uncancel_order), the webhook handler linear_webhook, the  *)
(* refresh script mirror_suborders_from_linear_to_db.py and the sweep      *)
(* script mirror_orders_from_db_to_linear.py, together with the tracker    *)
(* (Linear) as the environment they talk to.                               *)
(*                                                                         *)
(* Text is modelled as a sequence whose elements are single characters;    *)
(* fixed passages of generated text that no pattern of the code can match  *)
(* inside are kept as one opaque element.  An absent description, date or  *)
(* provider is the empty sequence; an absent issue id is 0.                *)
(***************************************************************************)
EXTENDS Integers, Sequences, FiniteSets, TLC

VARIABLES
    issues,     \* the tracker: sequence of issues, an issue's id is its index
    orders,     \* portal."order": sequence of rows
    suborder,   \* portal.suborder: sequence of rows
    inflight,   \* webhook events the tracker has emitted (delivered any number of times, in any order)
    edits,      \* number of tracker-side edits and malformed posts made so far
    ret,        \* the last request handled: operation, argument, response
    req,        \* the arguments of the last Create, Update, Cancel or Uncancel request
    redelivered, \* the last step delivered the event that the step before it delivered
    delivered,  \* the events whose delivery has been logged (DeliverLogged)
    running     \* the handlers that run step by step, each with its position and locals

vars == <<issues, orders, suborder, inflight, edits, ret, req, redelivered, delivered,
          running>>

-----------------------------------------------------------------------------
(* Bounds of the model *)

\* issues created, order rows written and tracker-side edits, all together
MaxWork == 4
\* comments on one order issue
MaxComments == 2
\* orders already stored for the day when the id sequence is observed
MaxStored == 998
\* ids issued on top of the stored orders
MaxIssued == 3
\* utilities named in one suborder title
MaxLetters == 2

-----------------------------------------------------------------------------
(* Configuration constants of main.py (project and workflow-state ids) *)

LINEAR_PROJECT_ID == "orders-project"
SUBORDERS_PROJECT_ID == "suborders-project"
LINEAR_TODO_STATE_ID == "Todo"
LINEAR_BACKLOG_STATE_ID == "Backlog"
LINEAR_CANCELED_STATE_ID == "Canceled"
ID_LABEL == "ID"

NoText == <<>>
NoId == 0

-----------------------------------------------------------------------------
(* enums.py *)

\* a map that reads E as GAS and G as ELECTRIC
UTILITY_ABBREV_MAPSwapped ==
    [c \in {"E", "G", "W", "T"} |->
        CASE c = "E" -> "GAS"
          [] c = "G" -> "ELECTRIC"
          [] c = "W" -> "WATER"
          [] c = "T" -> "TRASH"]

UTILITY_ABBREV_MAP ==
    [c \in {"E", "G", "W", "T"} |->
        CASE c = "E" -> "ELECTRIC"
          [] c = "G" -> "GAS"
          [] c = "W" -> "WATER"
          [] c = "T" -> "TRASH"]

REASON_DISPLAY ==
    [r \in {"ACQUISITION", "DISPOSITION", "MOVE_OUT", "EVICTION",
            "ABANDONMENT", "ONBOARDING", "OTHER"} |->
        CASE r = "ACQUISITION" -> "Acquisition"
          [] r = "DISPOSITION" -> "Disposition"
          [] r = "MOVE_OUT" -> "Move-Out"
          [] r = "EVICTION" -> "Eviction"
          [] r = "ABANDONMENT" -> "Abandonment"
          [] r = "ONBOARDING" -> "Onboarding"
          [] r = "OTHER" -> "Other"]

SuborderStatus ==
    {"TODO", "IN_PROGRESS", "BLOCKED_MANAGER", "BLOCKED_PROVIDER",
     "DONE", "CANCELED", "RETURNED"}

\* a derivation whose last resort is IN_PROGRESS
get_suborder_statusFallingForward(state_name, label_names) ==
    IF state_name = "Done" THEN "DONE"
    ELSE IF state_name = "Canceled"
         THEN (IF "Returned" \in label_names THEN "RETURNED" ELSE "CANCELED")
    ELSE IF "Blocked - Manager" \in label_names THEN "BLOCKED_MANAGER"
    ELSE IF "Blocked - Provider" \in label_names THEN "BLOCKED_PROVIDER"
    ELSE IF state_name = "Todo" THEN "TODO"
    ELSE "IN_PROGRESS"

\* a derivation that looks at the blocked labels before the terminal states
get_suborder_statusLabelsFirst(state_name, label_names) ==
    IF "Blocked - Manager" \in label_names THEN "BLOCKED_MANAGER"
    ELSE IF "Blocked - Provider" \in label_names THEN "BLOCKED_PROVIDER"
    ELSE IF state_name = "Done" THEN "DONE"
    ELSE IF state_name = "Canceled"
         THEN (IF "Returned" \in label_names THEN "RETURNED" ELSE "CANCELED")
    ELSE IF state_name = "In Progress" THEN "IN_PROGRESS"
    ELSE "TODO"

get_suborder_status(state_name, label_names) ==
    IF state_name = "Done" THEN "DONE"
    ELSE IF state_name = "Canceled"
         THEN (IF "Returned" \in label_names THEN "RETURNED" ELSE "CANCELED")
    ELSE IF "Blocked - Manager" \in label_names THEN "BLOCKED_MANAGER"
    ELSE IF "Blocked - Provider" \in label_names THEN "BLOCKED_PROVIDER"
    ELSE IF state_name = "Todo" THEN "TODO"
    ELSE IF state_name = "In Progress" THEN "IN_PROGRESS"
    ELSE "TODO"

-----------------------------------------------------------------------------
(* Text codec of main.py *)

ACTIVATE == <<"A", "c", "t", "i", "v", "a", "t", "e", " ">>
VIA == <<" ", "v", "i", "a", " ">>
SCHEDULED_FOR == <<"s", "c", "h", "e", "d", "u", "l", "e", "d", "_", "f", "o", "r", ":">>
Digit == {"0", "1", "2", "3", "4", "5", "6", "7", "8", "9"}
Space == {" ", "\n", "\t"}

StartsWithAt(s, i, p) ==
    /\ i + Len(p) - 1 <= Len(s)
    /\ \A k \in 1..Len(p) : s[i + k - 1] = p[k]

\* the length of the longest run of characters of class cls in s from position i
RECURSIVE RunLen(_, _, _)
RunLen(s, i, cls) ==
    IF i <= Len(s) /\ s[i] \in cls THEN 1 + RunLen(s, i + 1, cls) ELSE 0

\* the length of the run of characters other than newline in s from position i
RECURSIVE LineLen(_, _)
LineLen(s, i) ==
    IF i <= Len(s) /\ s[i] # "\n" THEN 1 + LineLen(s, i + 1) ELSE 0

NotParsed == [ok |-> FALSE, utilities |-> <<>>, provider |-> NoText]

\* a pattern whose provider group may be empty
parse_suborder_titleEmptyProvider(title) ==
    LET pre == Len(ACTIVATE)
        run == RunLen(title, pre + 1, {"E", "G", "W"})
        p == pre + run + Len(VIA) + 1
        plen == LineLen(title, p)
    IN  IF /\ StartsWithAt(title, 1, ACTIVATE)
           /\ run >= 1
           /\ StartsWithAt(title, pre + run + 1, VIA)
        THEN [ok |-> TRUE,
              utilities |-> [k \in 1..run |-> UTILITY_ABBREV_MAP[title[pre + k]]],
              provider |-> SubSeq(title, p, p + plen - 1)]
        ELSE NotParsed

\* re.match(r'Activate ([EGW]+) via (.+)', title): anchored at the start only
parse_suborder_title(title) ==
    LET pre == Len(ACTIVATE)
        run == RunLen(title, pre + 1, {"E", "G", "W"})
        p == pre + run + Len(VIA) + 1
        plen == LineLen(title, p)
    IN  IF /\ StartsWithAt(title, 1, ACTIVATE)
           /\ run >= 1
           /\ StartsWithAt(title, pre + run + 1, VIA)
           /\ plen >= 1
        THEN [ok |-> TRUE,
              utilities |-> [k \in 1..run |-> UTILITY_ABBREV_MAP[title[pre + k]]],
              provider |-> SubSeq(title, p, p + plen - 1)]
        ELSE NotParsed

\* a pattern that takes whatever follows the key on its line
DateAtAnyShape(d, i) ==
    LET j == i + Len(SCHEDULED_FOR)
        k == j + RunLen(d, j, {" "})
    IN  IF StartsWithAt(d, i, SCHEDULED_FOR) /\ LineLen(d, k) >= 1
        THEN SubSeq(d, k, k + LineLen(d, k) - 1)
        ELSE NoText

\* r'scheduled_for:\s*(\d{4}-\d{2}-\d{2})' matched with its first character at i
DateAt(d, i) ==
    LET j == i + Len(SCHEDULED_FOR)
        k == j + RunLen(d, j, Space)
    IN  IF /\ StartsWithAt(d, i, SCHEDULED_FOR)
           /\ k + 9 <= Len(d)
           /\ \A m \in {0, 1, 2, 3, 5, 6, 8, 9} : d[k + m] \in Digit
           /\ d[k + 4] = "-"
           /\ d[k + 7] = "-"
        THEN SubSeq(d, k, k + 9)
        ELSE NoText

\* re.search: the leftmost match
parse_scheduled_for(description) ==
    IF description = NoText THEN NoText
    ELSE LET hits == {i \in 1..Len(description) : DateAt(description, i) # NoText}
         IN  IF hits = {} THEN NoText
             ELSE DateAt(description, CHOOSE i \in hits : \A j \in hits : i <= j)

\* f"[{', '.join(utilities)}]"
RECURSIVE JoinComma(_)
JoinComma(us) ==
    IF us = <<>> THEN <<>>
    ELSE IF Len(us) = 1 THEN <<us[1]>>
    ELSE <<us[1], ", ">> \o JoinComma(Tail(us))

FormatUtilities(us) == <<"[">> \o JoinComma(us) \o <<"]">>

\* the code fence (three backquotes) is the element FENCE
FENCE == "[fence]"

build_suborder_data_block ==
    <<"+++ **Suborder Data**", "\n", "\n", FENCE, "\n">>
    \o SCHEDULED_FOR \o <<"\n", "account_number:", "\n", "deposit_paid:", "\n",
        "deposit_amount:", "\n", "deposit_confirmation_number:", "\n", FENCE,
        "\n", "\n", "+++">>

-----------------------------------------------------------------------------
(* Reference data and request inputs *)

\* a propify.property table in which every code is on file
PropertiesAllOnFile == {"P1", "P2", "PX"}

\* propify.property: the property codes that resolve, with their street
Properties == {"P1", "P2"}
Street(code) == IF code = "P1" THEN "12 Elm St" ELSE "34 Oak Ave"

Date1 == <<"2", "0", "2", "5", "-", "1", "2", "-", "1", "5">>

Utility == {"ELECTRIC", "GAS", "WATER", "SEWER", "TRASH"}
FirstLetter(u) ==
    CASE u = "ELECTRIC" -> "E"
      [] u = "GAS" -> "G"
      [] u = "WATER" -> "W"
      [] u = "SEWER" -> "S"
      [] u = "TRASH" -> "T"

Input(code, us, reason, requested_for, special) ==
    [code |-> code, utilities |-> us, reason |-> reason,
     requested_for |-> requested_for, special_instructions |-> special]

\* special_instructions: <<>> is None, <<s>> is the string s
OrderInputs ==
    {Input("P1", <<"ELECTRIC">>, "MOVE_OUT", Date1, <<>>),
     Input("P1", <<"SEWER", "GAS">>, "OTHER", NoText, <<<<" ", "x">>>>),
     Input("PX", <<"ELECTRIC">>, "MOVE_OUT", NoText, <<>>),
     Input("P1", <<>>, "MOVE_OUT", NoText, <<>>)}

\* the inputs of Update: a move of the order to another property with blank
\* instructions, the utilities of an input of Create in another order, and the
\* inputs of Create that are refused
UpdateInputs ==
    {Input("P2", <<"ELECTRIC">>, "MOVE_OUT", Date1, <<<<" ">>>>),
     Input("P1", <<"GAS", "SEWER">>, "OTHER", NoText, <<<<" ", "x">>>>)}
    \cup {inp \in OrderInputs : inp.code = "PX" \/ inp.utilities = <<>>}

\* inputs of Update that repeat the values of a Create, or move the order
RepeatInputs ==
    {Input("P1", <<"ELECTRIC">>, "MOVE_OUT", Date1, <<>>),
     Input("P2", <<"ELECTRIC">>, "MOVE_OUT", Date1, <<>>)}

\* what a call to the tracker can come back with
RemoteOutcome == {"ok", "errors", "raise"}

-----------------------------------------------------------------------------
(* Tables *)

HasRow(tbl, id) == \E i \in DOMAIN tbl : tbl[i].linear_id = id

RowOf(tbl, id) == tbl[CHOOSE i \in DOMAIN tbl : tbl[i].linear_id = id]

\* DELETE FROM portal.suborder WHERE linear_id = %s
\* a DELETE that matches no row
DeleteRowMatchingNothing(tbl, id) == tbl

DeleteRow(tbl, id) ==
    LET keep(r) == r.linear_id # id IN SelectSeq(tbl, keep)

\* a plain INSERT, without the ON CONFLICT clause
UpsertWithoutConflictClause(tbl, row) == Append(tbl, row)

\* an upsert whose DO UPDATE SET leaves the status column out
UpsertKeepingStatus(tbl, row) ==
    IF HasRow(tbl, row.linear_id)
    THEN [i \in DOMAIN tbl |->
            IF tbl[i].linear_id = row.linear_id
            THEN [row EXCEPT !.status = tbl[i].status]
            ELSE tbl[i]]
    ELSE Append(tbl, row)

\* INSERT ... ON CONFLICT (linear_id) DO UPDATE SET <every projected field>
Upsert(tbl, row) ==
    IF HasRow(tbl, row.linear_id)
    THEN [i \in DOMAIN tbl |-> IF tbl[i].linear_id = row.linear_id THEN row ELSE tbl[i]]
    ELSE Append(tbl, row)

\* INSERT ... ON CONFLICT (linear_id) DO NOTHING
InsertIgnore(tbl, row) ==
    IF HasRow(tbl, row.linear_id) THEN tbl ELSE Append(tbl, row)

Work == Len(issues) + Len(orders) + edits

HasOrder(id) == \E i \in DOMAIN orders : orders[i].id = id
OrderOf(id) == orders[CHOOSE i \in DOMAIN orders : orders[i].id = id]

-----------------------------------------------------------------------------
(* The webhook handler, main.py linear_webhook *)

Event(type, action, id, project, title, description, parent, state, labels) ==
    [type |-> type, action |-> action, id |-> id, projectId |-> project,
     title |-> title, description |-> description, parent |-> parent,
     state |-> state, labels |-> labels, malformed |-> ""]

\* payloads of unexpected shape: "data" is null, "title" is null, "state" is a
\* string instead of an object
MalformedKinds == {"data", "title", "state"}
Malformed(e, kind) == [e EXCEPT !.malformed = kind]

NoEvent == Event("", "", NoId, "", NoText, NoText, NoId, "", {})

\* a parent made up when none is in the payload or on file
ResolveParentFabricating(tbl, ev) ==
    IF ev.parent # NoId THEN ev.parent
    ELSE IF HasRow(tbl, ev.id) THEN RowOf(tbl, ev.id).order_linear_id
    ELSE ev.id

\* the parent of the payload, else the order_linear_id on file for this linear_id
ResolveParent(tbl, ev) ==
    IF ev.parent # NoId THEN ev.parent
    ELSE IF HasRow(tbl, ev.id) THEN RowOf(tbl, ev.id).order_linear_id
    ELSE NoId

\* the row the handler writes for a payload and a resolved parent
Projection(ev, order_linear_id) ==
    [linear_id |-> ev.id,
     order_linear_id |-> order_linear_id,
     utilities |-> FormatUtilities(parse_suborder_title(ev.title).utilities),
     provider |-> parse_suborder_title(ev.title).provider,
     scheduled_for |-> parse_scheduled_for(ev.description),
     status |-> get_suborder_status(ev.state, ev.labels)]

\* a handler that drops the row on file when the title is outside the grammar
linear_webhookDroppingOnBadTitle(tbl, ev) ==
    IF ev.type # "Issue"
    THEN [table |-> tbl, status |-> "ignored", detail |-> "not an Issue event"]
    ELSE IF ev.malformed = "data"
    THEN [table |-> tbl, status |-> "raised", detail |-> "data.get"]
    ELSE IF ev.projectId # SUBORDERS_PROJECT_ID
    THEN [table |-> tbl, status |-> "ignored", detail |-> "not a suborder issue"]
    ELSE IF ev.action = "remove"
    THEN [table |-> DeleteRow(tbl, ev.id), status |-> "ok", detail |-> "deleted"]
    ELSE IF ResolveParent(tbl, ev) = NoId
    THEN [table |-> tbl, status |-> "ignored", detail |-> "no parent issue"]
    ELSE IF ev.malformed = "title"
    THEN [table |-> tbl, status |-> "raised", detail |-> "re.match"]
    ELSE IF ~parse_suborder_title(ev.title).ok
    THEN [table |-> DeleteRow(tbl, ev.id), status |-> "ignored",
          detail |-> "title format invalid"]
    ELSE IF ev.malformed = "state"
    THEN [table |-> tbl, status |-> "raised", detail |-> "state.get"]
    ELSE [table |-> Upsert(tbl, Projection(ev, ResolveParent(tbl, ev))),
          status |-> "ok", detail |-> ev.action]

\* the handler as a function of the table and the event: the new table and the response
linear_webhook(tbl, ev) ==
    IF ev.type # "Issue"
    THEN [table |-> tbl, status |-> "ignored", detail |-> "not an Issue event"]
    ELSE IF ev.malformed = "data"
    THEN [table |-> tbl, status |-> "raised", detail |-> "data.get"]
    ELSE IF ev.projectId # SUBORDERS_PROJECT_ID
    THEN [table |-> tbl, status |-> "ignored", detail |-> "not a suborder issue"]
    ELSE IF ev.action = "remove"
    THEN [table |-> DeleteRow(tbl, ev.id), status |-> "ok", detail |-> "deleted"]
    ELSE IF ResolveParent(tbl, ev) = NoId
    THEN [table |-> tbl, status |-> "ignored", detail |-> "no parent issue"]
    ELSE IF ev.malformed = "title"
    THEN [table |-> tbl, status |-> "raised", detail |-> "re.match"]
    ELSE IF ~parse_suborder_title(ev.title).ok
    THEN [table |-> tbl, status |-> "ignored", detail |-> "title format invalid"]
    ELSE IF ev.malformed = "state"
    THEN [table |-> tbl, status |-> "raised", detail |-> "state.get"]
    ELSE [table |-> Upsert(tbl, Projection(ev, ResolveParent(tbl, ev))),
          status |-> "ok", detail |-> ev.action]

Request(order_id, inp) == [order_id |-> order_id, inp |-> inp]
NoRequest == Request(NoId, Input("", <<>>, "", NoText, <<>>))

\* the handlers of two requests served at the same time; a handler's record holds
\* its position and its local variables
Handlers == {"a", "b"}

Idle ==
    [op |-> "", pc |-> "idle", order_id |-> NoId, inp |-> NoRequest.inp,
     linear_id |-> NoId, k |-> 0, child |-> NoId, outcome |-> ""]

NoneRunning == [h \in Handlers |-> Idle]

Response(op, ev, id, outcome, detail, calls) ==
    [op |-> op, ev |-> ev, id |-> id, outcome |-> outcome, detail |-> detail,
     calls |-> calls]

Handle(e) ==
    /\ e \in inflight
    /\ req' = NoRequest
    /\ suborder' = linear_webhook(suborder, e).table
    /\ ret' = Response("webhook", e, NoId, linear_webhook(suborder, e).status,
                       linear_webhook(suborder, e).detail, 0)
    /\ redelivered' = (ret.op = "webhook" /\ ret.ev = e)
    /\ UNCHANGED <<issues, orders, inflight, edits>>

\* one delivery of event e
Deliver(e) == Handle(e) /\ UNCHANGED <<delivered, running>>

\* one delivery of event e, logged
DeliverLogged(e) == Handle(e) /\ delivered' = delivered \cup {e} /\ UNCHANGED running

-----------------------------------------------------------------------------
(* The tracker as environment: issues, and the events it emits *)

Issue(project, parent, title, description, state, labels, priority, dueDate) ==
    [project |-> project, parent |-> parent, title |-> title,
     description |-> description, state |-> state, labels |-> labels,
     priority |-> priority, dueDate |-> dueDate, comments |-> <<>>,
     removed |-> FALSE]

\* the payload of an Issue event: the issue's fields at the time of the event
IssueEvent(action, id, is, parent) ==
    Event("Issue", action, id, is.project, is.title, is.description, parent,
          is.state, is.labels)

CommentEvent(id) ==
    Event("Comment", "create", id, "", NoText, NoText, NoId, "", {})

\* tracker-side edits of a suborder issue
Patched(is, kind) ==
    CASE kind = "assign" ->
            [is EXCEPT !.title = ACTIVATE \o <<"E", "G">> \o VIA \o <<"X", "c", "e", "l">>,
                       !.description = SCHEDULED_FOR \o <<" ">> \o Date1 \o <<"\n">>,
                       !.state = "In Progress"]
      [] kind = "close" ->
            [is EXCEPT !.state = "Done", !.labels = {ID_LABEL, "Blocked - Manager"}]
      [] kind = "retitle" -> [is EXCEPT !.title = <<"F", "i", "x">>]
PatchKinds == {"assign", "close", "retitle"}

LiveSuborderIssues ==
    {i \in DOMAIN issues :
        issues[i].project = SUBORDERS_PROJECT_ID /\ ~issues[i].removed}

\* someone edits a suborder issue in the tracker; the update event may omit the parent
TrackerEdit(i, kind, withParent) ==
    /\ Work + 1 <= MaxWork
    /\ i \in LiveSuborderIssues
    /\ Patched(issues[i], kind) # issues[i]
    /\ issues' = [issues EXCEPT ![i] = Patched(issues[i], kind)]
    /\ inflight' = inflight \cup
          {IssueEvent("update", i, Patched(issues[i], kind),
                      IF withParent THEN issues[i].parent ELSE NoId)}
    /\ edits' = edits + 1
    /\ ret' = Response("tracker", NoEvent, NoId, "", "", 0)
    /\ req' = NoRequest
    /\ redelivered' = FALSE
    /\ UNCHANGED <<delivered, running>>
    /\ UNCHANGED <<orders, suborder>>

\* the workflow states and the labels a suborder issue can be given in the tracker
WorkflowStates == {"Backlog", "Todo", "In Progress", "Done", "Canceled"}
StatusLabels == {"Returned", "Blocked - Manager", "Blocked - Provider"}

\* someone moves a suborder issue to a workflow state and sets its labels
TrackerRelabel(i, state, labels) ==
    /\ Work + 1 <= MaxWork
    /\ i \in LiveSuborderIssues
    /\ issues' = [issues EXCEPT ![i].state = state, ![i].labels = labels]
    /\ inflight' = inflight \cup
          {IssueEvent("update", i, [issues[i] EXCEPT !.state = state, !.labels = labels],
                      issues[i].parent)}
    /\ edits' = edits + 1
    /\ ret' = Response("tracker", NoEvent, NoId, "", "", 0)
    /\ req' = NoRequest
    /\ redelivered' = FALSE
    /\ UNCHANGED <<delivered, running>>
    /\ UNCHANGED <<orders, suborder>>

\* a sender posts event e with one part of the payload in an unexpected shape
SendMalformed(e, kind) ==
    /\ Work + 1 <= MaxWork
    /\ e \in inflight
    /\ e.malformed = ""
    /\ inflight' = inflight \cup {Malformed(e, kind)}
    /\ edits' = edits + 1
    /\ ret' = Response("sender", NoEvent, NoId, "", "", 0)
    /\ req' = NoRequest
    /\ redelivered' = FALSE
    /\ UNCHANGED <<delivered, running>>
    /\ UNCHANGED <<issues, orders, suborder>>

\* someone removes a suborder issue in the tracker
TrackerRemove(i) ==
    /\ i \in LiveSuborderIssues
    /\ issues' = [issues EXCEPT ![i].removed = TRUE]
    /\ inflight' = inflight \cup {IssueEvent("remove", i, issues[i], issues[i].parent)}
    /\ ret' = Response("tracker", NoEvent, NoId, "", "", 0)
    /\ req' = NoRequest
    /\ redelivered' = FALSE
    /\ UNCHANGED <<delivered, running>>
    /\ UNCHANGED <<orders, suborder, edits>>

-----------------------------------------------------------------------------
(* Order ids, main.py generate_order_id *)

Today == "20250101"

RECURSIVE Digits(_)
Digits(n) == IF n < 10 THEN <<n>> ELSE Digits(n \div 10) \o <<n % 10>>

\* f"{next_seq:03d}"
Pad3(n) ==
    LET d == Digits(n)
    IN  IF Len(d) >= 3 THEN d ELSE [k \in 1..(3 - Len(d)) |-> 0] \o d

\* string order of two digit strings (ORDER BY id DESC compares text)
RECURSIVE TextLess(_, _)
TextLess(a, b) ==
    IF a = <<>> THEN b # <<>>
    ELSE IF b = <<>> THEN FALSE
    ELSE IF a[1] # b[1] THEN a[1] < b[1]
    ELSE TextLess(Tail(a), Tail(b))

\* ORDER BY id DESC LIMIT 1 over rows lo..hi: the id that sorts last as text
RECURSIVE LastIdAsText(_, _, _)
LastIdAsText(tbl, lo, hi) ==
    IF lo = hi THEN tbl[lo].id
    ELSE LET mid == (lo + hi) \div 2
             a == LastIdAsText(tbl, lo, mid)
             b == LastIdAsText(tbl, mid + 1, hi)
         IN  IF TextLess(Pad3(a), Pad3(b)) THEN b ELSE a

\* the sequence number of the next order id of today
generate_order_id(tbl) ==
    IF tbl = <<>> THEN 1 ELSE LastIdAsText(tbl, 1, Len(tbl)) + 1

DigitChar == <<"0", "1", "2", "3", "4", "5", "6", "7", "8", "9">>

\* f"{today}-{next_seq:03d}"
OrderIdText(n) == <<Today, "-">> \o [k \in DOMAIN Pad3(n) |-> DigitChar[Pad3(n)[k] + 1]]

-----------------------------------------------------------------------------
(* Text that the order handlers generate *)

LeadingSpace(s) == RunLen(s, 1, Space)
RECURSIVE TrailingSpace(_)
TrailingSpace(s) ==
    IF s # <<>> /\ s[Len(s)] \in Space THEN 1 + TrailingSpace(SubSeq(s, 1, Len(s) - 1))
    ELSE 0

\* str.strip()
Strip(s) ==
    IF LeadingSpace(s) = Len(s) THEN <<>>
    ELSE SubSeq(s, LeadingSpace(s) + 1, Len(s) - TrailingSpace(s))

\* order.special_instructions.strip() if order.special_instructions else None
NormalizeSpecial(sp) ==
    IF sp = <<>> \/ sp[1] = <<>> THEN <<>> ELSE <<Strip(sp[1])>>

\* "".join(u[0] for u in utilities)
UtilAbbrev(us) == [k \in DOMAIN us |-> FirstLetter(us[k])]

\* f"[{street}] {REASON_DISPLAY[reason]} ({util_abbrev})"
OrderTitle(street, reason, us) ==
    <<"[", street, "] ", REASON_DISPLAY[reason], " (">> \o UtilAbbrev(us) \o <<")">>

\* main.py build_linear_description: the property sheet of the order issue
PropertyDescription(code) == <<"### Property", "\n", "- **Code**: ", code>>

Line(key, value) == <<key, ":", " ">> \o value \o <<"\n">>

RequestedAt == "2025-01-01T00:00:00Z"

build_order_metadata_comment(order_id, yardi_id, us, reason, requested_for, special) ==
    <<"+++ **Order Metadata**", "\n", "\n", FENCE, "\n">>
    \o Line("order_id", OrderIdText(order_id))
    \o Line("yardi_id", <<yardi_id>>)
    \o Line("requested_at", <<RequestedAt>>)
    \o Line("utilities", FormatUtilities(us))
    \o Line("requested_for", IF requested_for = NoText THEN <<"ASAP">> ELSE requested_for)
    \o Line("reason", <<reason>>)
    \o <<"special_instructions", ":", " ">>
    \o (IF special = <<>> \/ special[1] = <<>> THEN <<"null">> ELSE special[1])
    \o <<"\n", FENCE, "\n", "\n", "+++">>

Priority(requested_for) == IF requested_for = NoText THEN 1 ELSE 0

-----------------------------------------------------------------------------
(* main.py create_order *)

\* f"Activate {abbrev} via ?"
\* utility_abbrevs.get(utility, utility[0])
SuborderAbbrev(u) ==
    CASE u = "ELECTRIC" -> "E"
      [] u = "GAS" -> "G"
      [] u = "WATER" -> "W"
      [] OTHER -> FirstLetter(u)

SuborderTitle(u) == ACTIVATE \o <<SuborderAbbrev(u)>> \o VIA \o <<"?">>

\* the row create_order inserts for the child issue sid of utility u
EagerRow(sid, linear_id, u, requested_for) ==
    [linear_id |-> sid,
     order_linear_id |-> linear_id,
     utilities |-> FormatUtilities(<<u>>),
     provider |-> <<"?">>,
     scheduled_for |-> requested_for,
     status |-> "BACKLOG"]

\* the loop over order.utilities from the k-th on; st carries the tracker, the
\* suborder table, the emitted events, the calls made and whether a call raised
RECURSIVE CreateChildren(_, _, _, _, _)
CreateChildren(st, inp, linear_id, co, k) ==
    IF k > Len(inp.utilities) \/ st.raised THEN st
    ELSE LET u == inp.utilities[k]
             sid == Len(st.issues) + 1
             child == Issue(SUBORDERS_PROJECT_ID, linear_id, SuborderTitle(u),
                            build_suborder_data_block, LINEAR_BACKLOG_STATE_ID,
                            {ID_LABEL}, Priority(inp.requested_for), inp.requested_for)
         IN  IF co[k] = "raise"
             THEN [st EXCEPT !.raised = TRUE, !.calls = @ + 1]
             ELSE IF co[k] = "errors"
             THEN CreateChildren([st EXCEPT !.calls = @ + 1], inp, linear_id, co, k + 1)
             ELSE CreateChildren(
                    [issues |-> Append(st.issues, child),
                     suborder |-> InsertIgnore(st.suborder,
                                     EagerRow(sid, linear_id, u, inp.requested_for)),
                     inflight |-> st.inflight \cup
                                     {IssueEvent("create", sid, child, linear_id)},
                     raised |-> FALSE,
                     calls |-> st.calls + 1],
                    inp, linear_id, co, k + 1)

OrderRow(order_id, linear_id, inp) ==
    [id |-> order_id,
     linear_id |-> linear_id,
     yardi_id |-> inp.code,
     utilities |-> FormatUtilities(inp.utilities),
     reason |-> inp.reason,
     requested_for |-> inp.requested_for,
     special_instructions |-> NormalizeSpecial(inp.special_instructions),
     status |-> "TODO"]

Comment(body) == [body |-> body]

\* rI: the answer to the issue creation ("noid": no errors and no issue id);
\* rC: the answer to the comment creation; co[k]: the answer to the k-th child creation
create_order(inp, rI, rC, co) ==
    /\ req' = Request(NoId, inp)
    /\ redelivered' = FALSE
    /\ UNCHANGED <<delivered, running>>
    /\ UNCHANGED edits
    /\ IF inp.utilities = <<>>
       THEN /\ ret' = Response("create", NoEvent, NoId, "rejected", "validation", 0)
            /\ UNCHANGED <<issues, orders, suborder, inflight>>
       ELSE IF inp.code \notin Properties
       THEN /\ ret' = Response("create", NoEvent, NoId, "error", "Property not found", 0)
            /\ UNCHANGED <<issues, orders, suborder, inflight>>
       ELSE IF rI = "errors"
       THEN /\ ret' = Response("create", NoEvent, generate_order_id(orders), "error",
                               "tracker error", 1)
            /\ UNCHANGED <<issues, orders, suborder, inflight>>
       ELSE IF rI = "raise"
       THEN /\ ret' = Response("create", NoEvent, generate_order_id(orders), "raised",
                               "issue", 1)
            /\ UNCHANGED <<issues, orders, suborder, inflight>>
       ELSE
         LET order_id == generate_order_id(orders)
             linear_id == IF rI = "ok" THEN Len(issues) + 1 ELSE NoId
             issue == Issue(LINEAR_PROJECT_ID, NoId,
                            OrderTitle(Street(inp.code), inp.reason, inp.utilities),
                            PropertyDescription(inp.code), LINEAR_TODO_STATE_ID, {},
                            Priority(inp.requested_for), inp.requested_for)
             commented == rC = "ok" /\ linear_id # NoId
             body == build_order_metadata_comment(order_id, inp.code, inp.utilities,
                        inp.reason, inp.requested_for,
                        NormalizeSpecial(inp.special_instructions))
             issues1 == IF linear_id = NoId THEN issues
                        ELSE Append(issues,
                               IF commented
                               THEN [issue EXCEPT !.comments = <<Comment(body)>>]
                               ELSE issue)
             inflight1 == inflight
                          \cup (IF linear_id = NoId THEN {}
                                ELSE {IssueEvent("create", linear_id, issue, NoId)})
                          \cup (IF commented THEN {CommentEvent(linear_id)} ELSE {})
             st == CreateChildren(
                      [issues |-> issues1, suborder |-> suborder,
                       inflight |-> inflight1, raised |-> FALSE, calls |-> 2],
                      inp, linear_id, co, 1)
         IN  IF rC = "raise"
             THEN /\ issues' = issues1
                  /\ inflight' = inflight1
                  /\ ret' = Response("create", NoEvent, order_id, "raised", "comment", 2)
                  /\ UNCHANGED <<orders, suborder>>
             ELSE /\ issues' = st.issues
                  /\ suborder' = st.suborder
                  /\ inflight' = st.inflight
                  /\ IF st.raised
                     THEN /\ ret' = Response("create", NoEvent, order_id, "raised",
                                             "child", st.calls)
                          /\ UNCHANGED orders
                     ELSE /\ orders' = Append(orders, OrderRow(order_id, linear_id, inp))
                          /\ ret' = Response("create", NoEvent, order_id, "ok",
                                             IF linear_id = NoId THEN "no issue id" ELSE "",
                                             st.calls)

\* create_order while there is room for the order, its issue and its child issues
CreateOrder(inp, rI, rC, co) ==
    /\ Work + 2 + Len(inp.utilities) <= MaxWork
    /\ create_order(inp, rI, rC, co)

\* create_order with every child creation refused by the tracker
CreateOrderBare(inp, rI, rC) ==
    /\ Work + 2 <= MaxWork
    /\ create_order(inp, rI, rC, [k \in 1..Len(inp.utilities) |-> "errors"])

-----------------------------------------------------------------------------
(* main.py update_order *)

\* "Order Metadata" in body or "Portal Data" in body
HasMetadataHeader(c) ==
    \E k \in DOMAIN c.body :
        c.body[k] \in {"+++ **Order Metadata**", "+++ **Portal Data**"}

OrNull(v) == IF v = <<>> \/ v[1] = <<>> THEN <<"null">> ELSE v[1]
OrAsap(d) == IF d = NoText THEN <<"ASAP">> ELSE d

\* the lines of the change comment: one per field whose stored value differs
Changes(old, inp) ==
    (IF old.yardi_id # inp.code
     THEN <<<<"Yardi ID: ", old.yardi_id, " -> ", inp.code>>>> ELSE <<>>)
    \o (IF old.utilities # FormatUtilities(inp.utilities)
        THEN <<<<"Utilities: ">> \o old.utilities \o <<" -> ">>
                 \o FormatUtilities(inp.utilities)>> ELSE <<>>)
    \o (IF old.requested_for # inp.requested_for
        THEN <<<<"Requested for: ">> \o OrAsap(old.requested_for) \o <<" -> ">>
                 \o OrAsap(inp.requested_for)>> ELSE <<>>)
    \o (IF old.reason # inp.reason
        THEN <<<<"Reason: ", old.reason, " -> ", inp.reason>>>> ELSE <<>>)
    \o (IF old.special_instructions # NormalizeSpecial(inp.special_instructions)
        THEN <<<<"Special instructions: ">> \o OrNull(old.special_instructions)
                 \o <<" -> ">> \o OrNull(NormalizeSpecial(inp.special_instructions))>>
        ELSE <<>>)

RECURSIVE JoinLines(_)
JoinLines(ls) ==
    IF ls = <<>> THEN <<>>
    ELSE IF Len(ls) = 1 THEN ls[1]
    ELSE ls[1] \o <<"\n">> \o JoinLines(Tail(ls))

ChangeComment(changes) ==
    <<"Changed via portal:", "\n", "\n", FENCE, "\n">> \o JoinLines(changes)
    \o <<"\n", FENCE>>

\* the comments of the issue after the metadata comment was written
WithMetadata(comments, body) ==
    IF \E k \in DOMAIN comments : HasMetadataHeader(comments[k])
    THEN LET first == CHOOSE k \in DOMAIN comments :
                         /\ HasMetadataHeader(comments[k])
                         /\ \A j \in 1..(k - 1) : ~HasMetadataHeader(comments[j])
         IN  [comments EXCEPT ![first] = Comment(body)]
    ELSE Append(comments, Comment(body))

\* an UPDATE that also puts the status back to its initial value
UpdatedRowResettingStatus(row, inp) ==
    [row EXCEPT !.yardi_id = inp.code,
                !.utilities = FormatUtilities(inp.utilities),
                !.reason = inp.reason,
                !.requested_for = inp.requested_for,
                !.special_instructions = NormalizeSpecial(inp.special_instructions),
                !.status = "TODO"]

UpdatedRow(row, inp) ==
    [row EXCEPT !.yardi_id = inp.code,
                !.utilities = FormatUtilities(inp.utilities),
                !.reason = inp.reason,
                !.requested_for = inp.requested_for,
                !.special_instructions = NormalizeSpecial(inp.special_instructions)]

SetOrder(tbl, id, row) ==
    [i \in DOMAIN tbl |-> IF tbl[i].id = id THEN row ELSE tbl[i]]

OrderIdInputs == {orders[i].id : i \in DOMAIN orders} \cup {generate_order_id(orders)}

\* an update that writes the row before it looks at the tracker's answer
UpdateOrderWritingRefused(order_id, inp, rU, rF, rM, rL) ==
    /\ req' = Request(order_id, inp)
    /\ redelivered' = FALSE
    /\ UNCHANGED <<delivered, running>>
    /\ UNCHANGED <<suborder, inflight, edits>>
    /\ IF inp.utilities = <<>>
       THEN /\ ret' = Response("update", NoEvent, order_id, "rejected", "validation", 0)
            /\ UNCHANGED <<issues, orders>>
       ELSE IF inp.code \notin Properties
       THEN /\ ret' = Response("update", NoEvent, order_id, "error", "Property not found", 0)
            /\ UNCHANGED <<issues, orders>>
       ELSE IF ~HasOrder(order_id)
       THEN /\ ret' = Response("update", NoEvent, order_id, "error", "Order not found", 0)
            /\ UNCHANGED <<issues, orders>>
       ELSE IF OrderOf(order_id).linear_id = NoId
       THEN /\ ret' = Response("update", NoEvent, order_id, "error",
                               "Linear issue ID not found", 0)
            /\ UNCHANGED <<issues, orders>>
       ELSE
         LET old == OrderOf(order_id)
             lid == old.linear_id
             body == build_order_metadata_comment(order_id, inp.code, inp.utilities,
                        inp.reason, inp.requested_for,
                        NormalizeSpecial(inp.special_instructions))
             is1 == [issues[lid] EXCEPT
                        !.title = OrderTitle(Street(inp.code), inp.reason, inp.utilities),
                        !.priority = Priority(inp.requested_for),
                        !.dueDate = inp.requested_for]
             fetched == IF rF = "ok" THEN is1.comments ELSE <<>>
             is2 == IF rM # "ok" THEN is1
                    ELSE IF \E k \in DOMAIN fetched : HasMetadataHeader(fetched[k])
                    THEN [is1 EXCEPT !.comments = WithMetadata(is1.comments, body)]
                    ELSE [is1 EXCEPT !.comments = Append(is1.comments, Comment(body))]
             changes == Changes(old, inp)
             is3 == IF changes # <<>> /\ rL = "ok"
                    THEN [is2 EXCEPT !.comments =
                            Append(is2.comments, Comment(ChangeComment(changes)))]
                    ELSE is2
             calls == IF changes # <<>> THEN 4 ELSE 3
         IN  /\ Len(is3.comments) <= MaxComments
             /\ IF rU = "errors"
                THEN /\ ret' = Response("update", NoEvent, order_id, "error",
                                        "tracker error", 1)
                     /\ orders' = SetOrder(orders, order_id, UpdatedRow(old, inp))
                     /\ UNCHANGED issues
                ELSE IF rU = "raise"
                THEN /\ ret' = Response("update", NoEvent, order_id, "raised", "issue", 1)
                     /\ UNCHANGED <<issues, orders>>
                ELSE IF rF = "raise"
                THEN /\ issues' = [issues EXCEPT ![lid] = is1]
                     /\ ret' = Response("update", NoEvent, order_id, "raised", "comments", 2)
                     /\ UNCHANGED orders
                ELSE IF rM = "raise"
                THEN /\ issues' = [issues EXCEPT ![lid] = is1]
                     /\ ret' = Response("update", NoEvent, order_id, "raised", "metadata", 3)
                     /\ UNCHANGED orders
                ELSE IF changes # <<>> /\ rL = "raise"
                THEN /\ issues' = [issues EXCEPT ![lid] = is2]
                     /\ ret' = Response("update", NoEvent, order_id, "raised", "changes", 4)
                     /\ UNCHANGED orders
                ELSE /\ issues' = [issues EXCEPT ![lid] = is3]
                     /\ orders' = SetOrder(orders, order_id, UpdatedRow(old, inp))
                     /\ ret' = Response("update", NoEvent, order_id, "ok", "", calls)

\* rU, rF, rM, rL: the answers to the issue update, the comment list query, the
\* write of the metadata comment and the creation of the change comment
UpdateOrder(order_id, inp, rU, rF, rM, rL) ==
    /\ req' = Request(order_id, inp)
    /\ redelivered' = FALSE
    /\ UNCHANGED <<delivered, running>>
    /\ UNCHANGED <<suborder, inflight, edits>>
    /\ IF inp.utilities = <<>>
       THEN /\ ret' = Response("update", NoEvent, order_id, "rejected", "validation", 0)
            /\ UNCHANGED <<issues, orders>>
       ELSE IF inp.code \notin Properties
       THEN /\ ret' = Response("update", NoEvent, order_id, "error", "Property not found", 0)
            /\ UNCHANGED <<issues, orders>>
       ELSE IF ~HasOrder(order_id)
       THEN /\ ret' = Response("update", NoEvent, order_id, "error", "Order not found", 0)
            /\ UNCHANGED <<issues, orders>>
       ELSE IF OrderOf(order_id).linear_id = NoId
       THEN /\ ret' = Response("update", NoEvent, order_id, "error",
                               "Linear issue ID not found", 0)
            /\ UNCHANGED <<issues, orders>>
       ELSE
         LET old == OrderOf(order_id)
             lid == old.linear_id
             body == build_order_metadata_comment(order_id, inp.code, inp.utilities,
                        inp.reason, inp.requested_for,
                        NormalizeSpecial(inp.special_instructions))
             is1 == [issues[lid] EXCEPT
                        !.title = OrderTitle(Street(inp.code), inp.reason, inp.utilities),
                        !.priority = Priority(inp.requested_for),
                        !.dueDate = inp.requested_for]
             fetched == IF rF = "ok" THEN is1.comments ELSE <<>>
             is2 == IF rM # "ok" THEN is1
                    ELSE IF \E k \in DOMAIN fetched : HasMetadataHeader(fetched[k])
                    THEN [is1 EXCEPT !.comments = WithMetadata(is1.comments, body)]
                    ELSE [is1 EXCEPT !.comments = Append(is1.comments, Comment(body))]
             changes == Changes(old, inp)
             is3 == IF changes # <<>> /\ rL = "ok"
                    THEN [is2 EXCEPT !.comments =
                            Append(is2.comments, Comment(ChangeComment(changes)))]
                    ELSE is2
             calls == IF changes # <<>> THEN 4 ELSE 3
         IN  /\ Len(is3.comments) <= MaxComments
             /\ IF rU = "errors"
                THEN /\ ret' = Response("update", NoEvent, order_id, "error",
                                        "tracker error", 1)
                     /\ UNCHANGED <<issues, orders>>
                ELSE IF rU = "raise"
                THEN /\ ret' = Response("update", NoEvent, order_id, "raised", "issue", 1)
                     /\ UNCHANGED <<issues, orders>>
                ELSE IF rF = "raise"
                THEN /\ issues' = [issues EXCEPT ![lid] = is1]
                     /\ ret' = Response("update", NoEvent, order_id, "raised", "comments", 2)
                     /\ UNCHANGED orders
                ELSE IF rM = "raise"
                THEN /\ issues' = [issues EXCEPT ![lid] = is1]
                     /\ ret' = Response("update", NoEvent, order_id, "raised", "metadata", 3)
                     /\ UNCHANGED orders
                ELSE IF changes # <<>> /\ rL = "raise"
                THEN /\ issues' = [issues EXCEPT ![lid] = is2]
                     /\ ret' = Response("update", NoEvent, order_id, "raised", "changes", 4)
                     /\ UNCHANGED orders
                ELSE /\ issues' = [issues EXCEPT ![lid] = is3]
                     /\ orders' = SetOrder(orders, order_id, UpdatedRow(old, inp))
                     /\ ret' = Response("update", NoEvent, order_id, "ok", "", calls)

-----------------------------------------------------------------------------
(* main.py cancel_order and uncancel_order *)

\* an UPDATE of the status that also clears the requested date
SetStatusClearingDate(tbl, id, status) ==
    [i \in DOMAIN tbl |-> IF tbl[i].id = id
                          THEN [tbl[i] EXCEPT !.status = status, !.requested_for = NoText]
                          ELSE tbl[i]]

SetStatus(tbl, id, status) ==
    [i \in DOMAIN tbl |-> IF tbl[i].id = id THEN [tbl[i] EXCEPT !.status = status]
                          ELSE tbl[i]]

\* handlers that write the status before they look at the tracker's answer
MoveOrderStatusFirst(op, order_id, stateId, status, rS) ==
    /\ req' = Request(order_id, NoRequest.inp)
    /\ redelivered' = FALSE
    /\ UNCHANGED <<delivered, running>>
    /\ UNCHANGED <<suborder, inflight, edits>>
    /\ IF ~HasOrder(order_id)
       THEN /\ ret' = Response(op, NoEvent, order_id, "error", "Order not found", 0)
            /\ UNCHANGED <<issues, orders>>
       ELSE IF OrderOf(order_id).linear_id = NoId
       THEN /\ orders' = SetStatus(orders, order_id, status)
            /\ ret' = Response(op, NoEvent, order_id, "ok", OrderOf(order_id).status, 0)
            /\ UNCHANGED issues
       ELSE IF rS = "errors"
       THEN /\ orders' = SetStatus(orders, order_id, status)
            /\ ret' = Response(op, NoEvent, order_id, "error", "tracker error", 1)
            /\ UNCHANGED issues
       ELSE IF rS = "raise"
       THEN /\ ret' = Response(op, NoEvent, order_id, "raised", "issue", 1)
            /\ UNCHANGED <<issues, orders>>
       ELSE /\ issues' = [issues EXCEPT ![OrderOf(order_id).linear_id].state = stateId]
            /\ orders' = SetStatus(orders, order_id, status)
            /\ ret' = Response(op, NoEvent, order_id, "ok", OrderOf(order_id).status, 1)

\* the body shared by the two handlers: move the issue to stateId, then set the status;
\* the response of a move that went through records the status the row had
MoveOrder(op, order_id, stateId, status, rS) ==
    /\ req' = Request(order_id, NoRequest.inp)
    /\ redelivered' = FALSE
    /\ UNCHANGED <<delivered, running>>
    /\ UNCHANGED <<suborder, inflight, edits>>
    /\ IF ~HasOrder(order_id)
       THEN /\ ret' = Response(op, NoEvent, order_id, "error", "Order not found", 0)
            /\ UNCHANGED <<issues, orders>>
       ELSE IF OrderOf(order_id).linear_id = NoId
       THEN /\ orders' = SetStatus(orders, order_id, status)
            /\ ret' = Response(op, NoEvent, order_id, "ok", OrderOf(order_id).status, 0)
            /\ UNCHANGED issues
       ELSE IF rS = "errors"
       THEN /\ ret' = Response(op, NoEvent, order_id, "error", "tracker error", 1)
            /\ UNCHANGED <<issues, orders>>
       ELSE IF rS = "raise"
       THEN /\ ret' = Response(op, NoEvent, order_id, "raised", "issue", 1)
            /\ UNCHANGED <<issues, orders>>
       ELSE /\ issues' = [issues EXCEPT ![OrderOf(order_id).linear_id].state = stateId]
            /\ orders' = SetStatus(orders, order_id, status)
            /\ ret' = Response(op, NoEvent, order_id, "ok", OrderOf(order_id).status, 1)

CancelOrder(order_id, rS) ==
    MoveOrder("cancel", order_id, LINEAR_CANCELED_STATE_ID, "CANCELED", rS)

UncancelOrder(order_id, rS) ==
    MoveOrder("uncancel", order_id, LINEAR_TODO_STATE_ID, "TODO", rS)

-----------------------------------------------------------------------------
(* scripts/mirror_suborders_from_linear_to_db.py refresh *)

\* a row whose scheduled_for is the issue's due date
RefreshRowFromDueDate(i, is) ==
    [linear_id |-> i,
     order_linear_id |-> is.parent,
     utilities |-> FormatUtilities(parse_suborder_title(is.title).utilities),
     provider |-> parse_suborder_title(is.title).provider,
     scheduled_for |-> is.dueDate,
     status |-> get_suborder_status(is.state, is.labels)]

\* the row refresh() writes for issue i of the Suborders project
RefreshRow(i, is) ==
    [linear_id |-> i,
     order_linear_id |-> is.parent,
     utilities |-> FormatUtilities(parse_suborder_title(is.title).utilities),
     provider |-> parse_suborder_title(is.title).provider,
     scheduled_for |-> parse_scheduled_for(is.description),
     status |-> get_suborder_status(is.state, is.labels)]

\* the loop over the fetched issues from the i-th on
RECURSIVE RefreshFrom(_, _)
RefreshFrom(tbl, i) ==
    IF i > Len(issues) THEN tbl
    ELSE IF issues[i].project # SUBORDERS_PROJECT_ID \/ issues[i].removed
    THEN RefreshFrom(tbl, i + 1)
    ELSE IF issues[i].parent = NoId THEN RefreshFrom(tbl, i + 1)
    ELSE IF ~parse_suborder_title(issues[i].title).ok THEN RefreshFrom(tbl, i + 1)
    ELSE RefreshFrom(Upsert(tbl, RefreshRow(i, issues[i])), i + 1)

\* rG: the answer to the issues query; gql() raises on an error and nothing is committed
Refresh(rG) ==
    /\ suborder' = IF rG = "ok" THEN RefreshFrom(suborder, 1) ELSE suborder
    /\ req' = NoRequest
    /\ ret' = Response("refresh", NoEvent, NoId, IF rG = "ok" THEN "ok" ELSE "raised", "",
                       1)
    /\ redelivered' = FALSE
    /\ UNCHANGED <<delivered, running>>
    /\ UNCHANGED <<issues, orders, inflight, edits>>

-----------------------------------------------------------------------------
(* scripts/mirror_orders_from_db_to_linear.py sync *)

\* parse_utilities: strip the brackets, split on the commas, strip each item
parse_utilities(utilities_str) ==
    LET item(t) == t \notin {"[", "]", ", "} IN SelectSeq(utilities_str, item)

RequestedAtIso == "2025-01-01T00:00:00+00:00"

\* the description the sweep expects: the Portal Data block
PortalData(order_id, yardi_id, us, reason, requested_for, special) ==
    <<"+++ **Portal Data**", "\n", "\n", FENCE, "\n">>
    \o Line("type", <<"Order">>)
    \o Line("id", OrderIdText(order_id))
    \o Line("requested_at", <<RequestedAtIso>>)
    \o Line("yardi_id", <<yardi_id>>)
    \o Line("utilities", FormatUtilities(us))
    \o Line("reason", <<reason>>)
    \o Line("is_urgent", <<IF requested_for = NoText THEN "true" ELSE "false">>)
    \o Line("requested_for", IF requested_for = NoText THEN <<"null">> ELSE requested_for)
    \o <<"special_instructions", ":", " ">> \o OrNull(special)
    \o <<"\n", FENCE, "\n", "\n", "+++">>

\* REASON_DISPLAY.get(reason, reason)
ReasonDisplay(reason) ==
    IF reason \in DOMAIN REASON_DISPLAY THEN REASON_DISPLAY[reason] ELSE reason

\* an update that also sends the issue back to the backlog
ExpectedMovingState(is, o) ==
    [is EXCEPT
        !.title = OrderTitle(Street(o.yardi_id), o.reason, parse_utilities(o.utilities)),
        !.description = PortalData(o.id, o.yardi_id, parse_utilities(o.utilities),
                                   o.reason, o.requested_for, o.special_instructions),
        !.priority = Priority(o.requested_for),
        !.dueDate = o.requested_for,
        !.state = LINEAR_BACKLOG_STATE_ID]

\* the issue as the sweep expects it for order row o
Expected(is, o) ==
    [is EXCEPT
        !.title = OrderTitle(Street(o.yardi_id), o.reason, parse_utilities(o.utilities)),
        !.description = PortalData(o.id, o.yardi_id, parse_utilities(o.utilities),
                                   o.reason, o.requested_for, o.special_instructions),
        !.priority = Priority(o.requested_for),
        !.dueDate = o.requested_for]

\* the fields the sweep reports for issue is and order row o
Diffs(is, o) ==
    {f \in {"title", "description", "priority", "dueDate"} :
        CASE f = "title" -> is.title # Expected(is, o).title
          [] f = "description" ->
                Strip(is.description) # Strip(Expected(is, o).description)
          [] f = "priority" -> is.priority # Expected(is, o).priority
          [] f = "dueDate" -> is.dueDate # Expected(is, o).dueDate}

\* a loop that updates at every answer but 'q'
RECURSIVE SweepFromUnasked(_, _, _, _)
SweepFromUnasked(iss, k, ans, res) ==
    IF k = 0 THEN iss
    ELSE LET o == orders[k]
         IN  IF o.linear_id = NoId \/ o.yardi_id \notin Properties
             THEN SweepFromUnasked(iss, k - 1, ans, res)
             ELSE IF Diffs(iss[o.linear_id], o) = {}
             THEN SweepFromUnasked(iss, k - 1, ans, res)
             ELSE IF ans[k] = "q" THEN iss
             ELSE IF res[k] # "ok"
             THEN SweepFromUnasked(iss, k - 1, ans, res)
             ELSE SweepFromUnasked(
                    [iss EXCEPT ![o.linear_id] = Expected(iss[o.linear_id], o)],
                    k - 1, ans, res)

\* the loop over the orders, most recent first, from the k-th row down; ans[k] is
\* the operator's answer for row k, res[k] the tracker's answer to its update
RECURSIVE SweepFrom(_, _, _, _)
SweepFrom(iss, k, ans, res) ==
    IF k = 0 THEN iss
    ELSE LET o == orders[k]
         IN  IF o.linear_id = NoId \/ o.yardi_id \notin Properties
             THEN SweepFrom(iss, k - 1, ans, res)
             ELSE IF Diffs(iss[o.linear_id], o) = {}
             THEN SweepFrom(iss, k - 1, ans, res)
             ELSE IF ans[k] = "q" THEN iss
             ELSE IF ans[k] # "y" \/ res[k] # "ok"
             THEN SweepFrom(iss, k - 1, ans, res)
             ELSE SweepFrom([iss EXCEPT ![o.linear_id] = Expected(iss[o.linear_id], o)],
                            k - 1, ans, res)

\* what the loop prints before each prompt: the order and the fields that differ
RECURSIVE SweepReport(_, _)
SweepReport(k, ans) ==
    IF k = 0 THEN <<>>
    ELSE LET o == orders[k]
         IN  IF o.linear_id = NoId \/ o.yardi_id \notin Properties
             THEN SweepReport(k - 1, ans)
             ELSE IF Diffs(issues[o.linear_id], o) = {}
             THEN SweepReport(k - 1, ans)
             ELSE <<[row |-> k, fields |-> Diffs(issues[o.linear_id], o)]>>
                  \o (IF ans[k] = "q" THEN <<>> ELSE SweepReport(k - 1, ans))

SweepTracker(ans, res) ==
    /\ issues' = SweepFrom(issues, Len(orders), ans, res)
    /\ redelivered' = FALSE
    /\ UNCHANGED <<delivered, running>>
    /\ UNCHANGED <<orders, suborder, inflight, edits>>

Sweep(ans, res) ==
    /\ SweepTracker(ans, res)
    /\ ret' = Response("sweep", NoEvent, NoId, "ok", "", 0)
    /\ req' = NoRequest

\* one run of the sweep, logged: the answers typed and received, what was printed
\* and the number of issues that were changed
SweepLogged(ans, res) ==
    /\ SweepTracker(ans, res)
    /\ ret' = Response("sweep", NoEvent, NoId, "ok", SweepReport(Len(orders), ans),
                       Cardinality({i \in DOMAIN issues :
                           SweepFrom(issues, Len(orders), ans, res)[i] # issues[i]}))
    /\ req' = Request(NoId, [ans |-> ans, res |-> res])

-----------------------------------------------------------------------------
(* The specification *)

Init ==
    /\ issues = <<>>
    /\ orders = <<>>
    /\ suborder = <<>>
    /\ inflight = {}
    /\ edits = 0
    /\ ret = Response("", NoEvent, NoId, "", "", 0)
    /\ req = NoRequest
    /\ redelivered = FALSE
    /\ delivered = {}
    /\ running = NoneRunning

\* the answers of the tracker to the calls of one request: at most one call fails
Answers(n) ==
    {v \in [1..n -> RemoteOutcome] : Cardinality({k \in 1..n : v[k] # "ok"}) <= 1}

Create ==
    \E inp \in OrderInputs, rI \in RemoteOutcome \cup {"noid"}, rC \in RemoteOutcome :
        \E co \in [1..Len(inp.utilities) -> RemoteOutcome] : CreateOrder(inp, rI, rC, co)

\* Create with every child issue created
CreateAll ==
    \E inp \in OrderInputs, rI \in RemoteOutcome \cup {"noid"}, rC \in RemoteOutcome :
        CreateOrder(inp, rI, rC, [k \in 1..Len(inp.utilities) |-> "ok"])

\* update_order's four calls: the issue update fails, or the comment query is cut
\* off by a transport failure, or every call succeeds
UpdateAnswers == {v \in Answers(4) : v[2] # "errors" /\ v[3] = "ok" /\ v[4] = "ok"}

Update ==
    \E id \in OrderIdInputs, inp \in UpdateInputs, v \in UpdateAnswers :
        UpdateOrder(id, inp, v[1], v[2], v[3], v[4])

Cancel == \E id \in OrderIdInputs, rS \in RemoteOutcome : CancelOrder(id, rS)

Uncancel == \E id \in OrderIdInputs, rS \in RemoteOutcome : UncancelOrder(id, rS)

Webhook == \E e \in inflight : Deliver(e)

WebhookLogged == \E e \in inflight : DeliverLogged(e)

Edit ==
    \E i \in DOMAIN issues, kind \in PatchKinds, withParent \in BOOLEAN :
        TrackerEdit(i, kind, withParent)

Remove == \E i \in DOMAIN issues : TrackerRemove(i)

RefreshRun == \E rG \in {"ok", "raise"} : Refresh(rG)

\* the rows the sweep can prompt for: mirrored, with a street and with a diff
Prompted ==
    {k \in DOMAIN orders :
        /\ orders[k].linear_id # NoId
        /\ orders[k].yardi_id \in Properties
        /\ Diffs(issues[orders[k].linear_id], orders[k]) # {}}

\* the operator answers at the prompts only ("n" stands for no answer elsewhere)
SweepAnswers ==
    {ans \in [DOMAIN orders -> {"y", "n", "q"}] :
        \A k \in DOMAIN orders : k \notin Prompted => ans[k] = "n"}

\* the tracker answers the updates that are sent only
SweepResults(ans) ==
    {res \in [DOMAIN orders -> {"ok", "errors"}] :
        \A k \in DOMAIN orders : ans[k] # "y" => res[k] = "ok"}

SweepRun == \E ans \in SweepAnswers : \E res \in SweepResults(ans) : Sweep(ans, res)

\* the ingestion pipeline: orders are created, the tracker changes, events arrive
Next == Create \/ Webhook \/ Edit \/ Remove \/ RefreshRun

\* the order lifecycle: the four operations, with the events of the created issues
NextOrders == CreateAll \/ Update \/ Cancel \/ Uncancel \/ SweepRun \/ Webhook

Spec == Init /\ [][Next]_vars

SpecOrders == Init /\ [][NextOrders]_vars

\* the ingestion pipeline with the deliveries logged
NextDelivery == CreateAll \/ WebhookLogged \/ Edit \/ Remove

SpecDelivery == Init /\ [][NextDelivery]_vars

\* Update with any one of its four tracker calls failing
UpdateAny ==
    \E id \in OrderIdInputs, inp \in RepeatInputs, v \in Answers(4) :
        UpdateOrder(id, inp, v[1], v[2], v[3], v[4])

\* Create and Update against a tracker that can fail at any call
NextComments == CreateAll \/ UpdateAny

SpecComments == Init /\ [][NextComments]_vars

\* the table after n orders of one day, none of them mirrored
IdInput == Input("P1", <<"ELECTRIC">>, "MOVE_OUT", Date1, <<>>)

StoredOrders(n) == [k \in 1..n |-> OrderRow(k, NoId, IdInput)]

InitIds ==
    /\ issues = <<>>
    /\ orders \in {StoredOrders(n) : n \in 0..MaxStored}
    /\ suborder = <<>>
    /\ inflight = {}
    /\ edits = 0
    /\ ret = Response("", NoEvent, NoId, "", "", 0)
    /\ req = NoRequest
    /\ redelivered = FALSE
    /\ delivered = {}
    /\ running = NoneRunning

\* one more order of the day, the tracker returning no issue id and no child
IssueId ==
    /\ Len(orders) < MaxStored + MaxIssued
    /\ create_order(IdInput, "noid", "ok", [k \in 1..Len(IdInput.utilities) |-> "errors"])

\* the ids issued over one day
NextIds == IssueId

SpecIds == InitIds /\ [][NextIds]_vars

CreateBare ==
    \E inp \in OrderInputs, rI \in {"ok", "noid"} : CreateOrderBare(inp, rI, "ok")

SweepRunLogged ==
    \E ans \in SweepAnswers : \E res \in SweepResults(ans) : SweepLogged(ans, res)

\* Update cut short by a transport failure when it posts the change comment
UpdateCut ==
    \E id \in OrderIdInputs, inp \in RepeatInputs :
        UpdateOrder(id, inp, "ok", "ok", "ok", "raise")

\* the sweep over orders that Create wrote and that an Update cut short has changed
NextSweep == CreateBare \/ UpdateCut \/ SweepRunLogged

SpecSweep == Init /\ [][NextSweep]_vars

Relabel ==
    \E i \in DOMAIN issues, state \in WorkflowStates, labels \in SUBSET StatusLabels :
        TrackerRelabel(i, state, labels)

\* the status derivation under every workflow state and label set
NextStatus == CreateAll \/ Relabel \/ Webhook

SpecStatus == Init /\ [][NextStatus]_vars

Malform == \E e \in inflight, kind \in MalformedKinds : SendMalformed(e, kind)

\* the webhook endpoint with payloads of unexpected shape
NextMalformed == CreateAll \/ Malform \/ Webhook

SpecMalformed == Init /\ [][NextMalformed]_vars

-----------------------------------------------------------------------------
(* The handlers step by step: every database statement and every tracker call of a
   handler is a step of its own, and the steps of two handlers interleave *)

\* handler h moves on to the record r
Stepped(h, r, detail) ==
    /\ running' = [running EXCEPT ![h] = r]
    /\ ret' = Response(r.op, NoEvent, r.order_id, r.outcome, detail, 0)
    /\ req' = Request(r.order_id, r.inp)
    /\ redelivered' = FALSE
    /\ UNCHANGED <<delivered, edits>>

\* order_id = generate_order_id(): the SELECT of the last id of the day
BeginCreate(h, inp) ==
    /\ running[h].pc = "idle"
    /\ Stepped(h, [Idle EXCEPT !.op = "create", !.pc = "issue", !.inp = inp,
                               !.order_id = generate_order_id(orders)],
               "generate_order_id")
    /\ UNCHANGED <<issues, orders, suborder, inflight>>

\* the issue and its metadata comment are created in the tracker
MirrorCreate(h) ==
    LET r == running[h]
        linear_id == Len(issues) + 1
        issue == Issue(LINEAR_PROJECT_ID, NoId,
                       OrderTitle(Street(r.inp.code), r.inp.reason, r.inp.utilities),
                       PropertyDescription(r.inp.code), LINEAR_TODO_STATE_ID, {},
                       Priority(r.inp.requested_for), r.inp.requested_for)
        body == build_order_metadata_comment(r.order_id, r.inp.code, r.inp.utilities,
                   r.inp.reason, r.inp.requested_for,
                   NormalizeSpecial(r.inp.special_instructions))
    IN  /\ r.pc = "issue"
        /\ issues' = Append(issues, [issue EXCEPT !.comments = <<Comment(body)>>])
        /\ inflight' = inflight \cup {IssueEvent("create", linear_id, issue, NoId),
                                      CommentEvent(linear_id)}
        /\ Stepped(h, [r EXCEPT !.pc = "child", !.linear_id = linear_id, !.k = 1],
                   "issue")
        /\ UNCHANGED <<orders, suborder>>

\* the child issue of the k-th utility is created in the tracker
ChildCreate(h) ==
    LET r == running[h]
        sid == Len(issues) + 1
        child == Issue(SUBORDERS_PROJECT_ID, r.linear_id,
                       SuborderTitle(r.inp.utilities[r.k]), build_suborder_data_block,
                       LINEAR_BACKLOG_STATE_ID, {ID_LABEL},
                       Priority(r.inp.requested_for), r.inp.requested_for)
    IN  /\ r.pc = "child"
        /\ issues' = Append(issues, child)
        /\ inflight' = inflight \cup {IssueEvent("create", sid, child, r.linear_id)}
        /\ Stepped(h, [r EXCEPT !.pc = "row", !.child = sid], "child")
        /\ UNCHANGED <<orders, suborder>>

\* INSERT INTO portal.suborder ... ON CONFLICT (linear_id) DO NOTHING
ChildRow(h) ==
    LET r == running[h]
    IN  /\ r.pc = "row"
        /\ suborder' = InsertIgnore(suborder,
                          EagerRow(r.child, r.linear_id, r.inp.utilities[r.k],
                                   r.inp.requested_for))
        /\ Stepped(h, [r EXCEPT !.k = r.k + 1,
                                !.pc = IF r.k + 1 > Len(r.inp.utilities) THEN "order"
                                       ELSE "child"],
                   IF HasRow(suborder, r.child) THEN "row kept" ELSE "row inserted")
        /\ UNCHANGED <<issues, orders, inflight>>

\* INSERT INTO portal."order"; unique tells whether the table, whose definition is
\* not part of the repository, has a unique constraint on id
OrderInsert(h, unique) ==
    LET r == running[h]
    IN  /\ r.pc = "order"
        /\ IF unique /\ HasOrder(r.order_id)
           THEN /\ Stepped(h, [r EXCEPT !.pc = "done", !.outcome = "raised"], "order")
                /\ UNCHANGED orders
           ELSE /\ orders' = Append(orders, OrderRow(r.order_id, r.linear_id, r.inp))
                /\ Stepped(h, [r EXCEPT !.pc = "done", !.outcome = "ok"], "order")
        /\ UNCHANGED <<issues, suborder, inflight>>

\* SELECT linear_id FROM portal."order" WHERE id = order_id
BeginMove(h, op, order_id) ==
    /\ running[h].pc = "idle"
    /\ IF ~HasOrder(order_id)
       THEN Stepped(h, [Idle EXCEPT !.op = op, !.order_id = order_id, !.pc = "done",
                                    !.outcome = "error"], "Order not found")
       ELSE Stepped(h, [Idle EXCEPT !.op = op, !.order_id = order_id,
                                    !.linear_id = OrderOf(order_id).linear_id,
                                    !.pc = IF OrderOf(order_id).linear_id = NoId
                                           THEN "row" ELSE "issue"],
                    "select")
    /\ UNCHANGED <<issues, orders, suborder, inflight>>

\* the issueUpdate with the stateId of the handler, answered rS
MoveIssue(h, rS) ==
    LET r == running[h]
    IN  /\ r.pc = "issue"
        /\ r.op \in {"cancel", "uncancel"}
        /\ IF rS = "errors"
           THEN /\ Stepped(h, [r EXCEPT !.pc = "done", !.outcome = "error"], "tracker error")
                /\ UNCHANGED issues
           ELSE IF rS = "raise"
           THEN /\ Stepped(h, [r EXCEPT !.pc = "done", !.outcome = "raised"], "issue")
                /\ UNCHANGED issues
           ELSE /\ issues' = [issues EXCEPT ![r.linear_id].state =
                                IF r.op = "cancel" THEN LINEAR_CANCELED_STATE_ID
                                ELSE LINEAR_TODO_STATE_ID]
                /\ Stepped(h, [r EXCEPT !.pc = "row"], "issue")
        /\ UNCHANGED <<orders, suborder, inflight>>

\* UPDATE portal."order" SET status = ... WHERE id = order_id
MoveRow(h) ==
    LET r == running[h]
    IN  /\ r.pc = "row"
        /\ r.op \in {"cancel", "uncancel"}
        /\ orders' = SetStatus(orders, r.order_id,
                               IF r.op = "cancel" THEN "CANCELED" ELSE "TODO")
        /\ Stepped(h, [r EXCEPT !.pc = "done", !.outcome = "ok"], "row")
        /\ UNCHANGED <<issues, suborder, inflight>>

\* the inputs create_order accepts
ValidInputs == {inp \in OrderInputs : inp.code \in Properties /\ inp.utilities # <<>>}

CreateBegins == \E h \in Handlers, inp \in ValidInputs : BeginCreate(h, inp)
CreateMirrors == \E h \in Handlers : running[h].op = "create" /\ MirrorCreate(h)
CreateChild == \E h \in Handlers : ChildCreate(h)
CreateChildRow == \E h \in Handlers : ChildRow(h)
CreateInserts == \E h \in Handlers, unique \in BOOLEAN : OrderInsert(h, unique)

\* two Creates side by side
NextRace == CreateBegins \/ CreateMirrors \/ CreateChild \/ CreateChildRow \/ CreateInserts

SpecRace == Init /\ [][NextRace]_vars

CreateBeginsOnce == \E inp \in ValidInputs : BeginCreate("a", inp)

\* one Create and the webhook side by side
NextEager ==
    \/ CreateBeginsOnce
    \/ CreateMirrors
    \/ CreateChild
    \/ CreateChildRow
    \/ CreateInserts
    \/ WebhookLogged

SpecEager == Init /\ [][NextEager]_vars

MoveBegins ==
    \E h \in Handlers, op \in {"cancel", "uncancel"}, id \in OrderIdInputs :
        BeginMove(h, op, id)
MoveIssues == \E h \in Handlers, rS \in RemoteOutcome : MoveIssue(h, rS)
MoveRows == \E h \in Handlers : MoveRow(h)

\* a Cancel and an Uncancel side by side on the orders Create wrote
NextMoves == CreateBare \/ MoveBegins \/ MoveIssues \/ MoveRows

SpecMoves == Init /\ [][NextMoves]_vars

-----------------------------------------------------------------------------
(* The text codecs applied to inputs drawn from bounded sets *)

\* sync_portal.py REFRESH_SQL: the block of a description and its key-value lines

\* the elements of a text that hold the text **Portal Data**
PortalDataHeaders == {"+++ **Portal Data**"}

\* regexp_match(description, header \s*\n+ fence \s*\n ([\s\S]*?) \n fence): the
\* first header followed by white space with a line break, a fence, white space
\* ending at a line break, and the shortest text that a line break and a fence end
FencedBlock(description, headers) ==
    LET FenceOf(h) == h + 1 + RunLen(description, h + 1, Space)
        Starts(h) ==
            LET f == FenceOf(h)
            IN  IF f <= Len(description) /\ description[f] = FENCE
                   /\ \E k \in (h + 1)..(f - 1) : description[k] = "\n"
                THEN {k + 1 : k \in {j \in (f + 1)..(f + RunLen(description, f + 1, Space)) :
                                        description[j] = "\n"}}
                ELSE {}
        Ends(c) == {e \in (c - 1)..(Len(description) - 1) :
                        description[e] = "\n" /\ description[e + 1] = FENCE}
        Usable(h) == {c \in Starts(h) : Ends(c) # {}}
        hits == {h \in DOMAIN description : description[h] \in headers /\ Usable(h) # {}}
    IN  IF hits = {} THEN [found |-> FALSE, text |-> NoText]
        ELSE LET h == CHOOSE x \in hits : \A y \in hits : x <= y
                 c == CHOOSE x \in Usable(h) : \A y \in Usable(h) : x >= y
                 e == CHOOSE x \in Ends(c) : \A y \in Ends(c) : x <= y
             IN  [found |-> TRUE, text |-> SubSeq(description, c, e - 1)]

\* regexp_split_to_table(block, '\n')
RECURSIVE SplitLines(_)
SplitLines(s) ==
    LET n == LineLen(s, 1)
    IN  IF n = Len(s) THEN <<s>>
        ELSE <<SubSeq(s, 1, n)>> \o SplitLines(SubSeq(s, n + 2, Len(s)))

\* position(':' IN line), 0 when the line has no colon
ColonAt(line) ==
    LET cs == {k \in DOMAIN line : line[k] = ":"}
    IN  IF cs = {} THEN 0 ELSE CHOOSE k \in cs : \A j \in cs : k <= j

\* TRIM(text): the text without its leading and trailing blanks
RECURSIVE TrailingBlank(_)
TrailingBlank(s) ==
    IF s # <<>> /\ s[Len(s)] = " " THEN 1 + TrailingBlank(SubSeq(s, 1, Len(s) - 1)) ELSE 0

TRIM(s) ==
    IF RunLen(s, 1, {" "}) = Len(s) THEN <<>>
    ELSE SubSeq(s, RunLen(s, 1, {" "}) + 1, Len(s) - TrailingBlank(s))

\* jsonb_object_agg(key, value) over the lines matching ^\s*[^:]+: , as the set of
\* its pairs; of two lines with one key the later one stays
parsed_data(description, headers) ==
    LET block == FencedBlock(description, headers)
        lines == IF block.found THEN SplitLines(block.text) ELSE <<>>
        Key(l) == TRIM(SubSeq(l, 1, ColonAt(l) - 1))
        Value(l) == TRIM(SubSeq(l, ColonAt(l) + 1, Len(l)))
        rows == {k \in DOMAIN lines : ColonAt(lines[k]) >= 2}
    IN  {<<Key(lines[k]), Value(lines[k])>> : k \in
            {k \in rows : \A j \in rows : j > k => Key(lines[j]) # Key(lines[k])}}

\* f"Activate {abbrev} via {provider}", the shape of the titles create_order writes
ActivateTitle(us, provider) ==
    ACTIVATE \o [k \in DOMAIN us |-> SuborderAbbrev(us[k])] \o VIA \o provider

UtilityLists == UNION {[1..n -> {"ELECTRIC", "GAS", "WATER"}] : n \in 1..MaxLetters}

Providers ==
    {<<"?">>,
     <<"X", "c", "e", "l", " ", "C", "o">>,
     <<"A", " ", "v", "i", "a", " ", "B">>,
     <<"E">>,
     <<" ", "X">>}

\* titles as people type them in the tracker, in and out of the grammar
Titles ==
    {<<>>,
     <<"F", "i", "x">>,
     ACTIVATE \o <<"E">> \o <<" ", "X">>,
     ACTIVATE \o <<"E">> \o <<" ", "v", "i", "a">>,
     ACTIVATE \o <<"E">> \o VIA,
     ACTIVATE \o <<"E", "G">> \o VIA,
     ACTIVATE \o VIA \o <<"X">>,
     ACTIVATE \o <<"S">> \o VIA \o <<"?">>,
     ACTIVATE \o <<"E", "T">> \o VIA \o <<"X">>,
     ACTIVATE \o <<"T", "E">> \o VIA \o <<"X">>,
     ACTIVATE \o <<"e">> \o VIA \o <<"X">>,
     ACTIVATE \o <<"E", " ", "G">> \o VIA \o <<"X">>,
     ACTIVATE \o <<"E">> \o <<" ", "V", "I", "A", " ">> \o <<"X">>,
     <<"R", "e", ":", " ">> \o ACTIVATE \o <<"E">> \o VIA \o <<"X">>,
     <<" ">> \o ACTIVATE \o <<"E">> \o VIA \o <<"X">>,
     <<"a">> \o Tail(ACTIVATE) \o <<"E">> \o VIA \o <<"X">>,
     <<"A", "c", "t", "i", "v", "a", "t", "e">> \o <<"E">> \o VIA \o <<"X">>,
     ACTIVATE \o <<"E">> \o VIA \o <<"X">>,
     ACTIVATE \o <<"G", "W", "E">> \o VIA \o <<"X", " ", "Y">>,
     ACTIVATE \o <<"W", "W">> \o VIA \o <<"?">>}

Date2 == <<"2", "0", "2", "6", "-", "0", "1", "-", "3", "1">>

\* descriptions with a line 'scheduled_for: <date>', in a block or in free text
DatedDescriptions(date) ==
    {SCHEDULED_FOR \o <<" ">> \o date,
     SCHEDULED_FOR \o <<" ">> \o date \o <<"\n">>,
     <<"c", "a", "l", "l", " ", "1", "2", "\n">> \o SCHEDULED_FOR \o <<" ">> \o date
        \o <<"\n", "o", "k">>,
     <<"+++ **Suborder Data**", "\n", "\n", FENCE, "\n">> \o SCHEDULED_FOR \o <<" ">>
        \o date \o <<"\n", "account_number:", "\n", FENCE, "\n", "\n", "+++">>}

\* descriptions without a date in that shape; NoText is a missing or empty one
UndatedDescriptions ==
    {NoText,
     <<"c", "a", "l", "l", " ", "1", "2">>,
     Date1,
     SCHEDULED_FOR,
     SCHEDULED_FOR \o <<" ">>,
     SCHEDULED_FOR \o <<" ", "n", "e", "x", "t", " ", "w", "e", "e", "k">>,
     SCHEDULED_FOR \o <<" ", "1", "2", "/", "1", "5", "/", "2", "0", "2", "5">>,
     SCHEDULED_FOR \o <<" ", "2", "0", "2", "5", "-", "1", "2", "-", "1">>,
     SCHEDULED_FOR \o <<" ", "2", "0", "2", "5", "1", "2", "1", "5">>,
     SCHEDULED_FOR \o <<" ", "1", "5", "-", "1", "2", "-", "2", "0", "2", "5">>,
     SCHEDULED_FOR \o <<" ", "T", "B", "D", " ">> \o Date1,
     build_suborder_data_block}

Descriptions ==
    DatedDescriptions(Date1) \cup DatedDescriptions(Date2) \cup UndatedDescriptions

\* the values create_order and update_order pass to build_order_metadata_comment
MetadataMappings ==
    {[order_id |-> 1, yardi_id |-> "P1", utilities |-> us, reason |-> "MOVE_OUT",
      requested_for |-> d, special_instructions |-> sp] :
        us \in {<<"ELECTRIC">>, <<"GAS", "WATER">>},
        d \in {NoText, Date1},
        sp \in {<<>>, <<<<"x">>>>, <<<<"a", ":", " ", "b">>>>}}

CodecInputs ==
    {[kind |-> "parts", utilities |-> us, provider |-> p] :
        us \in UtilityLists, p \in Providers}
    \cup {[kind |-> "title", text |-> t] : t \in Titles}
    \cup {[kind |-> "description", text |-> t] : t \in Descriptions}
    \cup {[kind |-> "metadata", mapping |-> m] : m \in MetadataMappings}

InitCodec ==
    /\ issues = <<>>
    /\ orders = <<>>
    /\ suborder = <<>>
    /\ inflight = {}
    /\ edits = 0
    /\ ret = Response("", NoEvent, NoId, "", "", 0)
    /\ req \in {Request(NoId, x) : x \in CodecInputs}
    /\ redelivered = FALSE
    /\ delivered = {}
    /\ running = NoneRunning

\* the function named op applied to the input, with its result
Applied(kind, op, result) ==
    /\ req.inp.kind = kind
    /\ ret' = Response(op, NoEvent, NoId, "ok", result, 0)
    /\ UNCHANGED <<issues, orders, suborder, inflight, edits, req, redelivered, delivered,
                 running>>

\* a title is built from utilities and a provider and parsed back
TitleRoundTrip ==
    Applied("parts", "title round trip",
            parse_suborder_title(ActivateTitle(req.inp.utilities, req.inp.provider)))

ParseTitle == Applied("title", "parse_suborder_title", parse_suborder_title(req.inp.text))

ParseScheduled ==
    Applied("description", "parse_scheduled_for", parse_scheduled_for(req.inp.text))

\* the metadata comment of a mapping is built and read by REFRESH_SQL
MetadataRoundTrip ==
    Applied("metadata", "metadata round trip",
            parsed_data(build_order_metadata_comment(
                            req.inp.mapping.order_id, req.inp.mapping.yardi_id,
                            req.inp.mapping.utilities, req.inp.mapping.reason,
                            req.inp.mapping.requested_for,
                            req.inp.mapping.special_instructions),
                        PortalDataHeaders))

\* the Portal Data description of a mapping is built and read by REFRESH_SQL
PortalDataRoundTrip ==
    Applied("metadata", "portal data round trip",
            parsed_data(PortalData(req.inp.mapping.order_id, req.inp.mapping.yardi_id,
                                   req.inp.mapping.utilities, req.inp.mapping.reason,
                                   req.inp.mapping.requested_for,
                                   req.inp.mapping.special_instructions),
                        PortalDataHeaders))

NextCodec ==
    \/ TitleRoundTrip
    \/ ParseTitle
    \/ ParseScheduled
    \/ MetadataRoundTrip
    \/ PortalDataRoundTrip

SpecCodec == InitCodec /\ [][NextCodec]_vars

-----------------------------------------------------------------------------
(* Properties of the ingestion pipeline *)

\* what the tracker issue i encodes now, as the handler decodes it
Decoded(i) == Projection(IssueEvent("update", i, issues[i], issues[i].parent),
                         issues[i].parent)

RowDecodesIssue(r) ==
    /\ parse_suborder_title(issues[r.linear_id].title).ok
    /\ r.utilities = Decoded(r.linear_id).utilities
    /\ r.provider = Decoded(r.linear_id).provider
    /\ r.scheduled_for = Decoded(r.linear_id).scheduled_for
    /\ r.status = Decoded(r.linear_id).status

NoTrackerChange == edits = 0 /\ \A i \in DOMAIN issues : ~issues[i].removed

\* C1: after any sequence of Create operations, webhook deliveries and refresh runs
\* (the tracker issues untouched since their creation), every suborder row holds in
\* utilities, provider, scheduled_for and status the values decoded from its issue.
C1_RowsDecodeTracker ==
    NoTrackerChange => \A k \in DOMAIN suborder : RowDecodesIssue(suborder[k])

RowsOf(tbl, id) == {k \in DOMAIN tbl : tbl[k].linear_id = id}

\* C2: delivering a non-remove event again right after its delivery leaves the
\* suborder table as the first delivery left it, with at most one row for the
\* event's id, and returns the same outcome.
C2_RedeliveryIdempotent ==
    [][(redelivered' /\ ret'.ev.action # "remove")
        => /\ suborder' = suborder
           /\ Cardinality(RowsOf(suborder', ret'.ev.id)) <= 1
           /\ ret'.outcome = ret.outcome
           /\ ret'.detail = ret.detail]_vars

C2_Witness ==
    /\ redelivered
    /\ ret.ev.action # "remove"
    /\ ret.outcome = "ok"
    /\ HasRow(suborder, ret.ev.id)

\* C3: if the creation of the mirrored issue fails in Create (error payload,
\* transport failure, or an answer without an issue id), Create reports an error
\* and no Order row of that request exists afterwards.
C3_FailedCreateWritesNoOrder ==
    (ret.op = "create"
        /\ (\/ ret.outcome = "error" /\ ret.detail = "tracker error"
            \/ ret.outcome = "raised" /\ ret.detail = "issue"
            \/ ret.detail = "no issue id"))
    => (ret.outcome \in {"error", "raised"} /\ ~HasOrder(ret.id))

\* C4: every suborder row has a parent reference that is the linear_id of an
\* existing Order row.
C4_NoOrphanSuborder ==
    \A k \in DOMAIN suborder :
        /\ suborder[k].order_linear_id # NoId
        /\ \E j \in DOMAIN orders : orders[j].linear_id = suborder[k].order_linear_id

\* C5: a non-remove event without a parent reference, for an id that has no row
\* on file, is answered 'ignored' and writes no row.
C5_OrphanEventIgnored ==
    [][(ret'.op = "webhook"
            /\ ret'.ev.action # "remove"
            /\ ret'.ev.parent = NoId
            /\ ~HasRow(suborder, ret'.ev.id))
        => (ret'.outcome = "ignored" /\ suborder' = suborder)]_vars

C5_Witness ==
    /\ ret.op = "webhook"
    /\ ret.ev.type = "Issue"
    /\ ret.ev.projectId = SUBORDERS_PROJECT_ID
    /\ ret.ev.action = "update"
    /\ ret.ev.parent = NoId
    /\ parse_suborder_title(ret.ev.title).ok
    /\ ret.outcome = "ignored"
    /\ ret.detail = "no parent issue"
    /\ ~HasRow(suborder, ret.ev.id)

-----------------------------------------------------------------------------
(* Properties of the order lifecycle *)

OrderStatus == {"TODO", "CANCELED"}

C7_LinearIdWrittenOnce ==
    [][\A j \in DOMAIN orders' :
        /\ orders'[j].linear_id \in DOMAIN issues'
        /\ issues'[orders'[j].linear_id].project = LINEAR_PROJECT_ID
        /\ orders'[j].utilities # <<>>
        /\ j \in DOMAIN orders => orders'[j].linear_id = orders[j].linear_id
        /\ j \notin DOMAIN orders => ret'.op = "create"]_vars

\* C8: Create or Update with a property code that resolves to no property or with
\* no utilities, Update, Cancel or Uncancel of an unknown Order id, and Update of
\* an Order without linear_id are rejected, with no tracker call and no row
\* written or changed.
C8_RejectedBeforeSideEffects ==
    [][(\/ /\ ret'.op \in {"create", "update"}
           /\ (req'.inp.code = "PX" \/ req'.inp.utilities = <<>>)
        \/ /\ ret'.op \in {"update", "cancel", "uncancel"}
           /\ ~HasOrder(req'.order_id)
        \/ /\ ret'.op = "update"
           /\ HasOrder(req'.order_id)
           /\ OrderOf(req'.order_id).linear_id = NoId)
        => /\ ret'.outcome \in {"rejected", "error"}
           /\ ret'.calls = 0
           /\ issues' = issues
           /\ inflight' = inflight
           /\ orders' = orders
           /\ suborder' = suborder]_vars

C8_Witness ==
    /\ ret.op = "update"
    /\ req.inp.code = "P1"
    /\ req.inp.utilities # <<>>
    /\ HasOrder(req.order_id)
    /\ OrderOf(req.order_id).linear_id = NoId
    /\ ret.outcome = "error"
    /\ ret.detail = "Linear issue ID not found"
    /\ ret.calls = 0

-----------------------------------------------------------------------------
(* Properties of the deliveries *)

EventsOf(i) == {e \in inflight : e.type = "Issue" /\ e.id = i}

\* every event the tracker has emitted about issue i has been handled
AllDelivered(i) == EventsOf(i) # {} /\ EventsOf(i) \subseteq delivered

\* C9: once every delivery about a suborder issue (one that has a parent and a
\* title of the grammar) has completed, in whatever order, the suborder row holds
\* the projection of the issue's most recent state.
C9_DeliveriesConverge ==
    \A i \in LiveSuborderIssues :
        (AllDelivered(i) /\ issues[i].parent # NoId
            /\ parse_suborder_title(issues[i].title).ok)
        => /\ HasRow(suborder, i)
           /\ RowOf(suborder, i) = Projection(IssueEvent("update", i, issues[i],
                                        issues[i].parent), issues[i].parent)

\* C10: once the remove event of an issue has been processed, no suborder row with
\* that linear_id exists in any later state, whatever is delivered afterwards.
C10_RemovedStaysRemoved ==
    \A e \in delivered : e.action = "remove" => ~HasRow(suborder, e.id)

-----------------------------------------------------------------------------
(* Properties of the webhook handler *)

\* the last step handled an Issue event of the Suborders project
SuborderEventHandled(r) ==
    /\ r.op = "webhook"
    /\ r.ev.type = "Issue"
    /\ r.ev.projectId = SUBORDERS_PROJECT_ID

\* the rows of tbl about other issues than id, in their order
OtherRows(tbl, id) ==
    LET other(r) == r.linear_id # id IN SelectSeq(tbl, other)

\* C11: a remove event is answered ok and leaves no row for its id, also when no
\* row was on file (a second remove), with every other row unchanged.
C11_RemoveIdempotent ==
    [][(SuborderEventHandled(ret') /\ ret'.ev.action = "remove")
        => /\ ret'.outcome = "ok"
           /\ ret'.detail = "deleted"
           /\ RowsOf(suborder', ret'.ev.id) = {}
           /\ suborder' = OtherRows(suborder, ret'.ev.id)]_vars

C11_Witness ==
    /\ redelivered
    /\ SuborderEventHandled(ret)
    /\ ret.ev.action = "remove"
    /\ ret.outcome = "ok"
    /\ suborder # <<>>

\* C14: a delivery answered 'ignored' (not an Issue event, not a suborder issue,
\* no parent, title outside the grammar) leaves the suborder table as it was,
\* the row on file for the same id included.
C14_IgnoredChangesNothing ==
    [][(ret'.op = "webhook" /\ ret'.outcome = "ignored") => suborder' = suborder]_vars

C14_Witness ==
    /\ ret.op = "webhook"
    /\ ret.outcome = "ignored"
    /\ ret.detail = "title format invalid"
    /\ HasRow(suborder, ret.ev.id)

\* the parent the handler has for event ev: of the payload, else of the row on file
ParentFor(tbl, ev) ==
    IF ev.parent # NoId THEN ev.parent
    ELSE IF RowsOf(tbl, ev.id) # {}
    THEN tbl[CHOOSE k \in RowsOf(tbl, ev.id) : TRUE].order_linear_id
    ELSE NoId

\* row r holds what event ev encodes
RowDecodesEvent(r, ev) ==
    /\ r.linear_id = ev.id
    /\ r.utilities = FormatUtilities(parse_suborder_title(ev.title).utilities)
    /\ r.provider = parse_suborder_title(ev.title).provider
    /\ r.scheduled_for = parse_scheduled_for(ev.description)
    /\ r.status = get_suborder_status(ev.state, ev.labels)

\* C15: a non-remove event that passes the filters, has a parent (its own or the
\* one on file) and a title of the grammar is answered ok and leaves exactly one
\* row for its id, holding that parent and the values decoded from the event,
\* whatever the row held before.
C15_UpsertOverwrites ==
    [][(/\ SuborderEventHandled(ret')
        /\ ret'.ev.action # "remove"
        /\ ParentFor(suborder, ret'.ev) # NoId
        /\ parse_suborder_title(ret'.ev.title).ok)
        => /\ ret'.outcome = "ok"
           /\ Cardinality(RowsOf(suborder', ret'.ev.id)) = 1
           /\ \A k \in RowsOf(suborder', ret'.ev.id) :
                /\ suborder'[k].order_linear_id = ParentFor(suborder, ret'.ev)
                /\ RowDecodesEvent(suborder'[k], ret'.ev)
           /\ OtherRows(suborder', ret'.ev.id) = OtherRows(suborder, ret'.ev.id)]_vars

\* an update overwrote a row that held other values
C15_Witness ==
    /\ SuborderEventHandled(ret)
    /\ ret.ev.action = "update"
    /\ ret.outcome = "ok"
    /\ HasRow(suborder, ret.ev.id)
    /\ RowOf(suborder, ret.ev.id).status = "IN_PROGRESS"
    /\ RowOf(suborder, ret.ev.id).provider # <<"?">>

\* C16: a non-remove event without a parent, for an id that has a row on file, is
\* upserted with the parent on file: order_linear_id stays and the other projected
\* fields are overwritten with the values of the event.
C16_ParentFallback ==
    [][(/\ SuborderEventHandled(ret')
        /\ ret'.ev.action # "remove"
        /\ ret'.ev.parent = NoId
        /\ RowsOf(suborder, ret'.ev.id) # {}
        /\ parse_suborder_title(ret'.ev.title).ok)
        => /\ ret'.outcome = "ok"
           /\ \A k \in RowsOf(suborder', ret'.ev.id) :
                /\ suborder'[k].order_linear_id = ParentFor(suborder, ret'.ev)
                /\ RowDecodesEvent(suborder'[k], ret'.ev)]_vars

\* C17: the status of every suborder row is a value of SuborderStatus.
C17_StatusInEnum ==
    \A k \in DOMAIN suborder : suborder[k].status \in SuborderStatus

-----------------------------------------------------------------------------
(* Properties of Create and of the tracker failures *)

\* C12: Create, Update, Cancel and Uncancel never raise on a tracker failure: at
\* whichever remote step the tracker fails, by an error payload or by a transport
\* failure, the operation returns a response.
C12_TrackerFailureReturned ==
    ret.op \in {"create", "update", "cancel", "uncancel"} => ret.outcome # "raised"

\* the id of the mirrored issue, when the step created one
NewOrderIssue(before, after) ==
    IF Len(after) > Len(before) /\ after[Len(before) + 1].project = LINEAR_PROJECT_ID
    THEN Len(before) + 1
    ELSE NoId

\* C18: when Create has created the mirrored issue and the metadata comment could
\* not be attached (the issue has no comment), Create still reports success and
\* persists the Order row with the new linear_id, unless a child creation raised.
C18_CommentFailureNotFatal ==
    [][(/\ ret'.op = "create"
        /\ NewOrderIssue(issues, issues') # NoId
        /\ issues'[Len(issues) + 1].comments = <<>>
        /\ ret'.detail # "child")
        => /\ ret'.outcome = "ok"
           /\ Len(orders') = Len(orders) + 1
           /\ orders'[Len(orders')].id = ret'.id
           /\ orders'[Len(orders')].linear_id = NewOrderIssue(issues, issues')]_vars

\* C19: every child issue Create has created under a mirrored issue has a title
\* that decodes under the title grammar to one utility with provider '?', and a
\* suborder row carrying that utility, provider '?' and the mirrored issue as
\* parent (the tracker issues untouched since their creation).
C19_ChildTitleDecodes ==
    NoTrackerChange =>
        \A i \in LiveSuborderIssues :
            issues[i].parent # NoId
            => /\ parse_suborder_title(issues[i].title).ok
               /\ Len(parse_suborder_title(issues[i].title).utilities) = 1
               /\ parse_suborder_title(issues[i].title).provider = <<"?">>
               /\ HasRow(suborder, i)
               /\ RowOf(suborder, i).utilities =
                    FormatUtilities(parse_suborder_title(issues[i].title).utilities)
               /\ RowOf(suborder, i).provider = <<"?">>
               /\ RowOf(suborder, i).order_linear_id = issues[i].parent

-----------------------------------------------------------------------------
(* Properties of Update *)

\* C20: a successful Update leaves the mirrored issue's title, description,
\* priority and due date equal to the values computed from the new input, and the
\* Order row holding the new property code, utilities, reason, requested_for and
\* special_instructions.
C20_UpdateRecomputesIssue ==
    [][(ret'.op = "update" /\ ret'.outcome = "ok")
        => LET lid == OrderOf(req'.order_id).linear_id
               inp == req'.inp
               row == CHOOSE r \in {orders'[j] : j \in DOMAIN orders'} :
                          r.id = req'.order_id
           IN  /\ issues'[lid].title = OrderTitle(Street(inp.code), inp.reason,
                                                  inp.utilities)
               /\ issues'[lid].description = PropertyDescription(inp.code)
               /\ issues'[lid].priority = Priority(inp.requested_for)
               /\ issues'[lid].dueDate = inp.requested_for
               /\ row.yardi_id = inp.code
               /\ row.utilities = FormatUtilities(inp.utilities)
               /\ row.reason = inp.reason
               /\ row.requested_for = inp.requested_for
               /\ row.special_instructions = NormalizeSpecial(inp.special_instructions)]_vars

-----------------------------------------------------------------------------
(* Properties of the webhook endpoint under malformed payloads *)

\* C13: whatever part of the payload is missing, null or of unexpected shape, the
\* webhook handler answers 'ignored' or 'ok' and never raises.
C13_MalformedNeverRaises ==
    ret.op = "webhook" => ret.outcome \in {"ignored", "ok"}

-----------------------------------------------------------------------------
(* Properties of the status derivation *)

\* the status the rules give, first match first; no rule for another state name
\* without a blocked label
StatusByRule(state_name, label_names) ==
    CASE state_name = "Done" -> {"DONE"}
      [] state_name = "Canceled" /\ "Returned" \in label_names -> {"RETURNED"}
      [] state_name = "Canceled" /\ "Returned" \notin label_names -> {"CANCELED"}
      [] state_name \notin {"Done", "Canceled"} /\ "Blocked - Manager" \in label_names
            -> {"BLOCKED_MANAGER"}
      [] state_name \notin {"Done", "Canceled"} /\ "Blocked - Manager" \notin label_names
            /\ "Blocked - Provider" \in label_names -> {"BLOCKED_PROVIDER"}
      [] state_name = "Todo" /\ label_names \cap {"Blocked - Manager",
            "Blocked - Provider"} = {} -> {"TODO"}
      [] state_name = "In Progress" /\ label_names \cap {"Blocked - Manager",
            "Blocked - Provider"} = {} -> {"IN_PROGRESS"}
      [] OTHER -> SuborderStatus

\* C30: the status written for an event is the value of the first matching rule:
\* Done gives DONE whatever the labels; Canceled gives RETURNED with the Returned
\* label and CANCELED without, never a blocked status; otherwise Blocked - Manager
\* gives BLOCKED_MANAGER, also when Blocked - Provider is present, and Blocked -
\* Provider alone BLOCKED_PROVIDER; otherwise Todo gives TODO and In Progress
\* IN_PROGRESS.
C30_StatusFirstRule ==
    [][(SuborderEventHandled(ret') /\ ret'.ev.action # "remove" /\ ret'.outcome = "ok")
        => \A k \in RowsOf(suborder', ret'.ev.id) :
              suborder'[k].status \in StatusByRule(ret'.ev.state, ret'.ev.labels)]_vars

C30_Witness ==
    /\ SuborderEventHandled(ret)
    /\ ret.outcome = "ok"
    /\ ret.ev.state = "Canceled"
    /\ ret.ev.labels = {"Returned", "Blocked - Manager", "Blocked - Provider"}
    /\ HasRow(suborder, ret.ev.id)
    /\ RowOf(suborder, ret.ev.id).status = "RETURNED"

-----------------------------------------------------------------------------
(* Properties of update_order's comments and of the stored instructions *)

Range(f) == {f[k] : k \in DOMAIN f}

\* the labels of the change lines of the fields whose stored value differs from the
\* value the input denotes, the utilities compared as sets
ChangedFields(old, inp) ==
    {l \in {"Yardi ID: ", "Utilities: ", "Requested for: ", "Reason: ",
            "Special instructions: "} :
        CASE l = "Yardi ID: " -> old.yardi_id # inp.code
          [] l = "Utilities: " -> Range(parse_utilities(old.utilities)) # Range(inp.utilities)
          [] l = "Requested for: " -> old.requested_for # inp.requested_for
          [] l = "Reason: " -> old.reason # inp.reason
          [] l = "Special instructions: " ->
                old.special_instructions # NormalizeSpecial(inp.special_instructions)}

IsChangeLog(c) == c.body # <<>> /\ c.body[1] = "Changed via portal:"

ChangeLogs(comments) == {k \in DOMAIN comments : IsChangeLog(comments[k])}

\* the change lines of comment c that start with label l
LinesFor(c, l) == {k \in DOMAIN c.body : c.body[k] = l}

\* C22: a successful Update appends a change-log comment if and only if one of
\* property code, utilities (as a set), requested_for, reason, special_instructions
\* differs from the stored value, and the comment has exactly one line for each
\* changed field and none for an unchanged one.
C22_ChangeLogIffChanged ==
    [][(ret'.op = "update" /\ ret'.outcome = "ok")
        => LET old == OrderOf(req'.order_id)
               fields == ChangedFields(old, req'.inp)
               before == issues[old.linear_id].comments
               after == issues'[old.linear_id].comments
           IN  IF fields = {}
               THEN Cardinality(ChangeLogs(after)) = Cardinality(ChangeLogs(before))
               ELSE /\ Cardinality(ChangeLogs(after)) = Cardinality(ChangeLogs(before)) + 1
                    /\ IsChangeLog(after[Len(after)])
                    /\ \A l \in {"Yardi ID: ", "Utilities: ", "Requested for: ", "Reason: ",
                                 "Special instructions: "} :
                          Cardinality(LinesFor(after[Len(after)], l))
                              = IF l \in fields THEN 1 ELSE 0]_vars

\* C25: for an Order just written by Create or Update the sweep computes no diff.
C25_SweepAgreesWithWriters ==
    (/\ ret.op \in {"create", "update"}
     /\ ret.outcome = "ok"
     /\ HasOrder(ret.id)
     /\ OrderOf(ret.id).linear_id # NoId)
    => Diffs(issues[OrderOf(ret.id).linear_id], OrderOf(ret.id)) = {}

\* C29: the stored special_instructions is absent or a non-empty string without
\* leading or trailing whitespace.
C29_SpecialTrimmedOrAbsent ==
    \A i \in DOMAIN orders :
        \/ orders[i].special_instructions = <<>>
        \/ /\ orders[i].special_instructions[1] # <<>>
           /\ LeadingSpace(orders[i].special_instructions[1]) = 0
           /\ TrailingSpace(orders[i].special_instructions[1]) = 0

-----------------------------------------------------------------------------
(* Properties of cancel_order and uncancel_order *)

\* C23: Cancel on an Order with a linear_id sets the status to CANCELED only when
\* the tracker accepted the move of the mirrored issue to the Canceled state; when
\* the tracker answers with an error the status is unchanged; on an Order without
\* linear_id no tracker call is made and only the local status changes.
C23_CancelAfterTrackerAccepted ==
    [][(ret'.op = "cancel" /\ HasOrder(req'.order_id))
        => LET old == OrderOf(req'.order_id)
           IN  IF old.linear_id = NoId
               THEN /\ ret'.calls = 0
                    /\ issues' = issues
                    /\ orders' = SetOrder(orders, old.id, [old EXCEPT !.status = "CANCELED"])
               ELSE IF ret'.outcome = "ok"
               THEN /\ issues'[old.linear_id].state = LINEAR_CANCELED_STATE_ID
                    /\ orders' = SetOrder(orders, old.id, [old EXCEPT !.status = "CANCELED"])
               ELSE /\ orders' = orders
                    /\ issues' = issues]_vars

C23_Witness ==
    /\ ret.op = "cancel"
    /\ ret.outcome = "error"
    /\ ret.detail = "tracker error"
    /\ HasOrder(ret.id)
    /\ OrderOf(ret.id).linear_id # NoId
    /\ OrderOf(ret.id).status = "TODO"
    /\ issues[OrderOf(ret.id).linear_id].state = LINEAR_TODO_STATE_ID

-----------------------------------------------------------------------------
(* Properties of the metadata comment *)

MetadataComments(i) ==
    {k \in DOMAIN issues[i].comments : HasMetadataHeader(issues[i].comments[k])}

\* the metadata of the values order row o holds
MetadataOf(o) ==
    build_order_metadata_comment(o.id, o.yardi_id, parse_utilities(o.utilities),
                                 o.reason, o.requested_for, o.special_instructions)

\* C21: after any sequence of Create and Update operations on an Order its mirrored
\* issue has at most one comment with the metadata header, and the body of that
\* comment is the metadata of the latest operation that succeeded, which is the
\* metadata of the values the Order row holds.
C21_OneMetadataComment ==
    \A j \in DOMAIN orders :
        orders[j].linear_id # NoId
        => /\ Cardinality(MetadataComments(orders[j].linear_id)) <= 1
           /\ \A k \in MetadataComments(orders[j].linear_id) :
                 issues[orders[j].linear_id].comments[k].body = MetadataOf(orders[j])

-----------------------------------------------------------------------------
(* Properties of the sweep *)

\* the operator quit at a row the sweep came to before row k
QuitBefore(k, ans) == \E j \in Prompted : j > k /\ ans[j] = "q"

\* C26: the sweep changes the issue of an Order only when that Order has a diff and
\* the operator answered 'y' at its prompt; at any other answer the issue is left
\* alone and the sweep goes on to the next Order; after 'q' no later Order's issue
\* is changed; the sweep never writes to the database.
C26_SweepUpdatesOnYesOnly ==
    [][ret'.op = "sweep"
        => /\ orders' = orders
           /\ suborder' = suborder
           /\ DOMAIN issues' = DOMAIN issues
           /\ \A i \in DOMAIN issues :
                 issues'[i] # issues[i]
                 <=> \E k \in Prompted :
                        /\ orders[k].linear_id = i
                        /\ req'.inp.ans[k] = "y"
                        /\ req'.inp.res[k] = "ok"
                        /\ ~QuitBefore(k, req'.inp.ans)]_vars

\* two Orders with a diff: the later one answered 'n' and left as it was, the
\* earlier one answered 'y' and brought to the expected values
C26_Witness ==
    /\ ret.op = "sweep"
    /\ ret.calls = 1
    /\ Len(ret.detail) = 2
    /\ \E k, j \in DOMAIN orders :
          /\ k < j
          /\ req.inp.ans[j] = "n"
          /\ req.inp.ans[k] = "y"
          /\ req.inp.res[k] = "ok"
          /\ j \in Prompted
          /\ k \notin Prompted
          /\ orders[k].linear_id # NoId

SweptFields == {"title", "description", "priority", "dueDate"}

-----------------------------------------------------------------------------
(* Properties of the order ids *)

\* C28: the sequence of a new Order's id is 1 on an empty day and is greater than
\* the sequence of every Order already stored for the day, so that no id is issued
\* twice, also beyond sequence 999.
C28_IdsNeverReissued ==
    [][Len(orders') > Len(orders)
        => LET new == orders'[Len(orders')].id
           IN  /\ orders = <<>> => new = 1
               /\ \A i \in DOMAIN orders : orders[i].id < new]_vars

-----------------------------------------------------------------------------
(* Properties of the pure functions *)

RecognisedStates == {"Done", "Canceled", "Todo", "In Progress"}
BlockedLabels == {"Blocked - Manager", "Blocked - Provider"}

\* the status written by the webhook step that has just handled an event
WrittenStatus == RowOf(suborder', ret'.ev.id).status

StatusWritten ==
    /\ SuborderEventHandled(ret')
    /\ ret'.ev.action # "remove"
    /\ ret'.outcome = "ok"

\* C31 as stated: the derived status is a member of the enum, and for every state
\* name other than Done, Canceled, Todo and In Progress it is TODO.
C31_UnrecognisedIsTodo ==
    [][StatusWritten
        => /\ WrittenStatus \in SuborderStatus
           /\ ret'.ev.state \notin RecognisedStates => WrittenStatus = "TODO"]_vars

\* C31 amended: the derived status is a member of the enum, and for every state
\* name other than Done, Canceled, Todo and In Progress it is TODO when no blocked
\* label is present, BLOCKED_MANAGER with the Blocked - Manager label, and
\* BLOCKED_PROVIDER with the Blocked - Provider label alone.
C31_TotalWithFallback ==
    [][StatusWritten
        => /\ WrittenStatus \in SuborderStatus
           /\ ret'.ev.state \notin RecognisedStates
               => WrittenStatus =
                    IF "Blocked - Manager" \in ret'.ev.labels THEN "BLOCKED_MANAGER"
                    ELSE IF "Blocked - Provider" \in ret'.ev.labels THEN "BLOCKED_PROVIDER"
                    ELSE "TODO"]_vars

C31_Witness ==
    /\ SuborderEventHandled(ret)
    /\ ret.outcome = "ok"
    /\ ret.ev.action = "update"
    /\ ret.ev.state = "Backlog"
    /\ ret.ev.labels = {"Returned"}
    /\ HasRow(suborder, ret.ev.id)
    /\ RowOf(suborder, ret.ev.id).status = "TODO"

\* C32: for every non-empty list of utilities drawn from ELECTRIC, GAS, WATER and
\* every non-empty provider name, parsing the title built from them returns the
\* same utilities in the same order and the same provider.
C32_TitleRoundTrip ==
    ret.op = "title round trip"
    => ret.detail = [ok |-> TRUE, utilities |-> req.inp.utilities,
                     provider |-> req.inp.provider]

C32_Witness ==
    /\ ret.op = "title round trip"
    /\ req.inp.utilities = <<"GAS", "ELECTRIC">>
    /\ req.inp.provider = <<"A", " ", "v", "i", "a", " ", "B">>
    /\ ret.detail.ok
    /\ ret.detail.utilities = <<"GAS", "ELECTRIC">>

\* the grammar 'Activate <letters> via <provider>': one letter or more of E, G, W
\* and a provider of one character or more
InGrammar(title) ==
    \E n \in 1..Len(title) :
        /\ Len(title) > Len(ACTIVATE) + n + Len(VIA)
        /\ \A k \in 1..n : title[Len(ACTIVATE) + k] \in {"E", "G", "W"}
        /\ title = ACTIVATE \o SubSeq(title, Len(ACTIVATE) + 1, Len(ACTIVATE) + n) \o VIA
                   \o SubSeq(title, Len(ACTIVATE) + n + Len(VIA) + 1, Len(title))

\* C33: parse_suborder_title returns 'not parseable' for every title that deviates
\* from the grammar (missing 'via', empty provider, a letter outside the recognised
\* set, text before 'Activate'), and every parsed result has a non-empty list of
\* known utility kinds and a non-empty provider.
C33_DeviationNotParsed ==
    ret.op = "parse_suborder_title"
    => /\ ~InGrammar(req.inp.text) => ret.detail = NotParsed
       /\ ret.detail.ok
           => /\ ret.detail.utilities # <<>>
              /\ \A k \in DOMAIN ret.detail.utilities : ret.detail.utilities[k] \in Utility
              /\ ret.detail.provider # <<>>

C33_Witness ==
    /\ ret.op = "parse_suborder_title"
    /\ req.inp.text = ACTIVATE \o <<"E", "T">> \o VIA \o <<"X">>
    /\ ret.detail = NotParsed

MappingPairs(m) ==
    {<<<<"order_id">>, OrderIdText(m.order_id)>>,
     <<<<"yardi_id">>, <<m.yardi_id>>>>,
     <<<<"requested_at">>, <<RequestedAt>>>>,
     <<<<"utilities">>, FormatUtilities(m.utilities)>>,
     <<<<"reason">>, <<m.reason>>>>}
    \cup (IF m.requested_for = NoText THEN {}
          ELSE {<<<<"requested_for">>, m.requested_for>>})
    \cup (IF m.special_instructions = <<>> THEN {}
          ELSE {<<<<"special_instructions">>, m.special_instructions[1]>>})

\* the pairs read back, a value of null being an absent one
Present(pairs) == {p \in pairs : p[2] # <<"null">>}

\* C34: the metadata comment of a mapping, read back per line as key and value with
\* null as absent, is the mapping again: absent requested_for and absent
\* special_instructions come back absent.
C34_MetadataRoundTrip ==
    ret.op = "metadata round trip" => Present(ret.detail) = MappingPairs(req.inp.mapping)

-----------------------------------------------------------------------------
(* Properties of update_order against a refusing tracker *)

\* C39: when the tracker answers the issue update of Update with an error payload,
\* Update returns the error after that one call, the Order row keeps all its
\* previous values, and no comment is created or modified on the mirrored issue.
C39_RefusedUpdateChangesNothing ==
    [][(ret'.op = "update" /\ ret'.calls = 1 /\ ret'.outcome # "raised")
        => /\ ret'.outcome = "error"
           /\ orders' = orders
           /\ issues' = issues]_vars

\* a refused update that asked for other values than the row holds, on an order
\* whose issue has its metadata comment
C39_Witness ==
    /\ ret.op = "update"
    /\ ret.calls = 1
    /\ ret.outcome = "error"
    /\ HasOrder(ret.id)
    /\ UpdatedRow(OrderOf(ret.id), req.inp) # OrderOf(ret.id)
    /\ MetadataComments(OrderOf(ret.id).linear_id) # {}

-----------------------------------------------------------------------------
(* Properties of refresh *)

\* the issues refresh() writes a row for: in the Suborders project, with a parent
\* and a title in the title grammar
Refreshable(i) ==
    /\ i \in LiveSuborderIssues
    /\ issues[i].parent # NoId
    /\ parse_suborder_title(issues[i].title).ok

\* the update event carrying the current fields of issue i
CurrentEvent(i) == IssueEvent("update", i, issues[i], issues[i].parent)

\* C40: for every issue of the Suborders project with a parent and a title in the
\* grammar, refresh() writes the row linear_webhook writes for an update event with
\* the issue's current fields; the other issues are skipped without a write; after
\* refresh() every such issue has exactly one row, equal to its projection.
C40_RefreshWritesWebhookRows ==
    [][(ret'.op = "refresh" /\ ret'.outcome = "ok")
        => /\ \A i \in DOMAIN issues :
                IF Refreshable(i)
                THEN /\ Cardinality(RowsOf(suborder', i)) = 1
                     /\ linear_webhook(suborder, CurrentEvent(i)).status = "ok"
                     /\ RowOf(suborder', i)
                            = RowOf(linear_webhook(suborder, CurrentEvent(i)).table, i)
                     /\ RowOf(suborder', i) = Projection(CurrentEvent(i), issues[i].parent)
                ELSE {suborder'[k] : k \in RowsOf(suborder', i)}
                        = {suborder[k] : k \in RowsOf(suborder, i)}
           /\ \A k \in DOMAIN suborder :
                suborder[k].linear_id \notin DOMAIN issues => suborder[k] \in Range(suborder')
           /\ issues' = issues]_vars

\* after a refresh: an issue edited in the tracker has its row, with the decoded
\* status and date, beside an issue that refresh skips
C40_Witness ==
    /\ ret.op = "refresh"
    /\ ret.outcome = "ok"
    /\ \E i \in DOMAIN issues :
          /\ Refreshable(i)
          /\ issues[i].state = "In Progress"
          /\ HasRow(suborder, i)
          /\ RowOf(suborder, i).status = "IN_PROGRESS"
          /\ RowOf(suborder, i).scheduled_for = Date1
    /\ \E i \in DOMAIN issues : ~Refreshable(i)

-----------------------------------------------------------------------------
(* Properties of handlers that run at the same time *)

Creating == {h \in Handlers : running[h].op = "create"}

\* C36: two Creates running at the same time on one day never hold the same Order
\* id, and every Create that created its mirrored issue and ran to its end has its
\* own Order row: a row with its id and the id of its issue, the only one with that id.
C36_ConcurrentIdsDistinct ==
    /\ \A g, h \in Creating : g # h => running[g].order_id # running[h].order_id
    /\ \A h \in Creating :
          (running[h].pc = "done" /\ running[h].linear_id # NoId)
          => /\ \E j \in DOMAIN orders :
                    /\ orders[j].id = running[h].order_id
                    /\ orders[j].linear_id = running[h].linear_id
             /\ Cardinality({j \in DOMAIN orders : orders[j].id = running[h].order_id}) = 1

\* the creation event of child issue c
CreationEvent(c) == IssueEvent("create", c, issues[c], issues[c].parent)

\* the child issues whose eager insert has run
EagerDone ==
    {c \in DOMAIN issues :
        \E h \in Creating :
            /\ issues[c].parent = running[h].linear_id
            /\ running[h].linear_id # NoId
            /\ (c < running[h].child \/ (c = running[h].child /\ running[h].pc # "row"))}

\* the child issues for whose creation event the webhook has committed its upsert
UpsertDone ==
    {c \in DOMAIN issues :
        /\ CreationEvent(c) \in delivered
        /\ linear_webhook(<<>>, CreationEvent(c)).status = "ok"}

\* C37: once the eager insert of Create and the webhook's upsert for the creation
\* event of a child issue have both run, in either order, the child has exactly one
\* row and it is the webhook's projection of the event; an eager insert that finds a
\* row leaves the table as it is.
C37_EagerInsertYieldsToWebhook ==
    [][/\ \A c \in EagerDone' \cap UpsertDone' :
             /\ Cardinality(RowsOf(suborder', c)) = 1
             /\ RowOf(suborder', c) = Projection(CreationEvent(c)', issues'[c].parent)
       /\ \A h \in Handlers :
             (running[h].pc = "row" /\ running'[h].pc # "row"
              /\ HasRow(suborder, running[h].child))
             => suborder' = suborder]_vars

\* an eager insert that found the row the webhook had written
C37_Witness ==
    /\ ret.op = "create"
    /\ ret.detail = "row kept"
    /\ \E c \in EagerDone \cap UpsertDone :
          /\ RowOf(suborder, c).status = "TODO"
          /\ \E h \in Creating : running[h].child = c

\* C38: when a Cancel and an Uncancel of one Order with a mirrored issue run at the
\* same time and both succeed, then after both the status of the Order and the
\* workflow state of the issue agree: CANCELED with Canceled, or TODO with Todo.
C38_StatusAgreesAfterRace ==
    \A g, h \in Handlers :
        (/\ running[g].op = "cancel" /\ running[h].op = "uncancel"
         /\ running[g].order_id = running[h].order_id
         /\ running[g].pc = "done" /\ running[g].outcome = "ok"
         /\ running[h].pc = "done" /\ running[h].outcome = "ok"
         /\ running[g].linear_id # NoId)
        => LET o == OrderOf(running[g].order_id)
           IN  \/ o.status = "CANCELED" /\ issues[o.linear_id].state = LINEAR_CANCELED_STATE_ID
               \/ o.status = "TODO" /\ issues[o.linear_id].state = LINEAR_TODO_STATE_ID

====
